---------------------------- MODULE Spec2Model ----------------------------
(***************************************************************************)
(* Record reconciliation and normalization pipeline of the productivity    *)
(* dashboard (DASHBOARD_FACTU): the identity-resolution passes of          *)
(* data/processors.py and service/rips_service.py, the state filters, and  *)
(* the session handlers of ui/file_upload.py.                              *)
(*                                                                         *)
(* Data representation.  A text is a sequence of one-character strings, so *)
(* that trim and uppercase are computed and not assumed.  A cell is a pair *)
(* <<kind, payload>>: a missing value (NaN), a text, or a number given by  *)
(* its decimal digits.  A table (DataFrame) is a record with the set of    *)
(* its column names, the dtype of every column and the sequence of its     *)
(* rows; None is the table with isNone = TRUE.  Library semantics are the  *)
(* ones of pandas 2.x: astype(str) turns NaN into the text "nan".          *)
(***************************************************************************)
EXTENDS Integers, Sequences, FiniteSets

(***************************************************************************)
(* Texts: str.strip() and str.upper()                                       *)
(***************************************************************************)
Lowers ==
    <<"a", "b", "c", "d", "e", "f", "g", "h", "i", "j", "k", "l", "m",
      "n", "o", "p", "q", "r", "s", "t", "u", "v", "w", "x", "y", "z", "ó">>
Uppers ==
    <<"A", "B", "C", "D", "E", "F", "G", "H", "I", "J", "K", "L", "M",
      "N", "O", "P", "Q", "R", "S", "T", "U", "V", "W", "X", "Y", "Z", "Ó">>

UpperChar(c) ==
    IF \E i \in 1..Len(Lowers) : Lowers[i] = c
    THEN Uppers[CHOOSE i \in 1..Len(Lowers) : Lowers[i] = c]
    ELSE c

Upper(s) == [i \in 1..Len(s) |-> UpperChar(s[i])]

\* a strip that takes blanks only
IsBlank(c) == c = " "

\* the characters str.strip() removes, among those the texts here are made of
IsSpace(c) == c \in {" ", "\n", "\t"}

RECURSIVE LStrip(_)
LStrip(s) == IF s # <<>> /\ IsSpace(Head(s)) THEN LStrip(Tail(s)) ELSE s

RECURSIVE RStrip(_)
RStrip(s) ==
    IF s # <<>> /\ IsSpace(s[Len(s)]) THEN RStrip(SubSeq(s, 1, Len(s) - 1)) ELSE s

Strip(s) == RStrip(LStrip(s))

(***************************************************************************)
(* Cells and dtypes                                                         *)
(***************************************************************************)
NULL == <<"null", <<>>>>
Str(s) == <<"str", s>>
Num(d) == <<"num", d>>

Date(s) == <<"date", s>>

IsNull(c) == c[1] = "null"
IsStr(c) == c[1] = "str"
IsNum(c) == c[1] = "num"
IsDate(c) == c[1] = "date"

\* dtype pandas infers for a freshly read column holding the cells cs
InferDType(cs) ==
    IF \E c \in cs : IsStr(c) THEN "object"
    ELSE IF \E c \in cs : IsNull(c) THEN "float64"
    ELSE "int64"

\* text of one cell under Series.astype(str): NaN becomes "nan" (NaT in a
\* datetime column becomes "NaT"), a number of a float64 column is printed
\* with its ".0"
AsTypeStr(c, dt) ==
    IF IsNull(c) THEN (IF dt = "datetime64" THEN <<"N", "a", "T">> ELSE <<"n", "a", "n">>)
    ELSE IF IsNum(c) /\ dt = "float64" THEN c[2] \o <<".", "0">>
    ELSE c[2]

\* .astype(str).str.strip().str.upper() on one cell
NormText(c, dt) == Upper(Strip(AsTypeStr(c, dt)))
NormCell(c, dt) == Str(NormText(c, dt))

(***************************************************************************)
(* Tables                                                                   *)
(***************************************************************************)
NoneT == [isNone |-> TRUE, cols |-> {}, dtype |-> [c \in {} |-> "object"], rows |-> <<>>]

\* df is None or df.empty
IsEmpty(t) == t.isNone \/ t.cols = {} \/ t.rows = <<>>

Table(cols, rows) ==
    [isNone |-> FALSE,
     cols   |-> cols,
     dtype  |-> [c \in cols |-> InferDType({rows[i][c] : i \in 1..Len(rows)})],
     rows   |-> rows]

RECURSIVE Pick(_, _, _)
\* the subsequence of s at the indices of keep, in order, from index i on
Pick(s, keep, i) ==
    IF i > Len(s) THEN <<>>
    ELSE (IF i \in keep THEN <<s[i]>> ELSE <<>>) \o Pick(s, keep, i + 1)

\* df[mask]: boolean-mask row selection, dtypes are kept
SelectRows(t, keep) == [t EXCEPT !.rows = Pick(t.rows, keep, 1)]

\* df[col] = values: replace or add a column; vals is a sequence of cells
AssignColumn(t, col, vals, dt) ==
    [isNone |-> FALSE,
     cols   |-> t.cols \cup {col},
     dtype  |-> [c \in t.cols \cup {col} |-> IF c = col THEN dt ELSE t.dtype[c]],
     rows   |-> [i \in 1..Len(t.rows) |->
                   [c \in t.cols \cup {col} |->
                       IF c = col THEN vals[i] ELSE t.rows[i][c]]]]

\* df.drop(columns=[col])
DropColumn(t, col) ==
    [isNone |-> FALSE,
     cols   |-> t.cols \ {col},
     dtype  |-> [c \in t.cols \ {col} |-> t.dtype[c]],
     rows   |-> [i \in 1..Len(t.rows) |-> [c \in t.cols \ {col} |-> t.rows[i][c]]]]

\* df[col].astype(str).str.strip().str.upper() as a sequence of cells
NormColumn(t, col) == [i \in 1..Len(t.rows) |-> NormCell(t.rows[i][col], t.dtype[col])]

\* df.dropna(subset=cols)
DropNa(t, cols) ==
    SelectRows(t, {i \in 1..Len(t.rows) : \A c \in cols : ~IsNull(t.rows[i][c])})

\* df.drop_duplicates(subset=[col]): the first row of every key is kept
DropDuplicates(t, col) ==
    SelectRows(t, {i \in 1..Len(t.rows) :
                      \A j \in 1..(i - 1) : t.rows[j][col] # t.rows[i][col]})

\* df.set_index(key)[val]: a Series val indexed by key, as a sequence of pairs
SetIndex(t, key, val) ==
    [i \in 1..Len(t.rows) |-> [k |-> t.rows[i][key], v |-> t.rows[i][val]]]

\* a lookup that consults the first entry of the map only
MapValueHead(mapa, k) ==
    IF mapa # <<>> /\ mapa[1].k = k THEN mapa[1].v ELSE NULL

\* one lookup of Series.map(mapa): the value indexed by k, NaN when k is no index
MapValue(mapa, k) ==
    IF \E i \in 1..Len(mapa) : mapa[i].k = k
    THEN mapa[CHOOSE i \in 1..Len(mapa) : mapa[i].k = k].v
    ELSE NULL

\* Series.map(mapa) over a sequence of cells
MapSeries(vals, mapa) == [i \in 1..Len(vals) |-> MapValue(mapa, vals[i])]

\* a fillna that fills nothing
FillNaNothing(vals, other) == vals

\* Series.fillna(other): NaN cells are taken from other, row by row
FillNa(vals, other) == [i \in 1..Len(vals) |-> IF IsNull(vals[i]) THEN other[i] ELSE vals[i]]

\* dtype of a computed column
SeriesDType(vals) == InferDType({vals[i] : i \in 1..Len(vals)})


(***************************************************************************)
(* Configuration (config/settings.py)                                       *)
(***************************************************************************)
ACTIVO == <<"A", "C", "T", "I", "V", "O">>
ACTIVA == <<"A", "C", "T", "I", "V", "A">>
COMPLETO == <<"C", "O", "M", "P", "L", "E", "T", "O">>

ESTADOS_VALIDOS_LEGALIZACIONES == {ACTIVA}
ESTADOS_VALIDOS_RIPS == {COMPLETO}
ESTADOS_VALIDOS_FACTURACION_ELECTRONICA == {ACTIVO}

\* COLUMN_NAMES["usuario"], in priority order
COLUMN_NAMES_usuario == <<"USUARIO", "USUARIO FACTURÓ", "USUARIO_FACTURO">>

(***************************************************************************)
(* data/validators.py                                                       *)
(***************************************************************************)
NoColumn == "<None>"

\* a search that returns the last variant that is a column
find_column_variant_last(df, column_variants) ==
    IF IsEmpty(df) THEN NoColumn
    ELSE IF \E n \in 1..Len(column_variants) : column_variants[n] \in df.cols
    THEN column_variants[CHOOSE n \in 1..Len(column_variants) :
                            /\ column_variants[n] \in df.cols
                            /\ \A m \in (n + 1)..Len(column_variants) :
                                  column_variants[m] \notin df.cols]
    ELSE NoColumn

\* find_column_variant: the first variant, in list order, that is a column
find_column_variant(df, column_variants) ==
    IF IsEmpty(df) THEN NoColumn
    ELSE IF \E n \in 1..Len(column_variants) : column_variants[n] \in df.cols
    THEN column_variants[CHOOSE n \in 1..Len(column_variants) :
                            /\ column_variants[n] \in df.cols
                            /\ \A m \in 1..(n - 1) : column_variants[m] \notin df.cols]
    ELSE NoColumn

(***************************************************************************)
(* Pass A: data/processors.py, merge_facturacion_with_electronica           *)
(* Every pass yields the returned table (ret) and the tables the caller's   *)
(* two arguments refer to once the call is over (tgt, ref).                 *)
(***************************************************************************)
\* lines 276-279 for one table: every object column is stripped and uppercased
NormalizeObjectColumns(t) ==
    [t EXCEPT !.rows = [i \in 1..Len(t.rows) |->
        [c \in t.cols |-> IF t.dtype[c] = "object"
                          THEN NormCell(t.rows[i][c], "object")
                          ELSE t.rows[i][c]]]]

\* lines 282-286: the e-billing rows in state ACTIVO, all rows without a state column
ActiveRows(fe) ==
    LET estado_col == IF "ESTADO" \in fe.cols THEN "ESTADO" ELSE "Estado"
    IN  IF estado_col \in fe.cols
        THEN SelectRows(fe, {i \in 1..Len(fe.rows) : fe.rows[i][estado_col] = Str(ACTIVO)})
        ELSE fe

\* lines 290-295: the FACTURA -> USUARIO map
MapaUsuario(activa) ==
    SetIndex(DropDuplicates(DropNa(activa, {"FACTURA", "USUARIO"}), "FACTURA"),
             "FACTURA", "USUARIO")

\* an assignment that keeps the matched rows only, as an inner join would
AssignUsuarioInner(res, activa) ==
    LET keys == [i \in 1..Len(res.rows) |-> res.rows[i]["NRO_FACTURACLI"]]
        vals == MapSeries(keys, MapaUsuario(activa))
        all  == AssignColumn(res, "USUARIO", vals, "object")
    IN  SelectRows(all, {i \in 1..Len(all.rows) : ~IsNull(all.rows[i]["USUARIO"])})

\* line 299: df_result['USUARIO'] = df_result['NRO_FACTURACLI'].map(mapa_usuario)
AssignUsuario(res, activa) ==
    LET keys == [i \in 1..Len(res.rows) |-> res.rows[i]["NRO_FACTURACLI"]]
        vals == MapSeries(keys, MapaUsuario(activa))
    IN  AssignColumn(res, "USUARIO", vals,
                     IF activa.dtype["USUARIO"] = "object" THEN "object"
                     ELSE SeriesDType(vals))

merge_facturacion_with_electronica(df_facturacion, df_fact_elec) ==
    IF IsEmpty(df_facturacion) \/ IsEmpty(df_fact_elec)
    THEN [ret |-> df_facturacion, tgt |-> df_facturacion, ref |-> df_fact_elec]
    ELSE LET df_result == NormalizeObjectColumns(df_facturacion)
             fe        == NormalizeObjectColumns(df_fact_elec)
             activa    == ActiveRows(fe)
         IN  [ret |-> IF /\ "FACTURA" \in activa.cols
                         /\ "USUARIO" \in activa.cols
                         /\ "NRO_FACTURACLI" \in df_result.cols
                      THEN AssignUsuario(df_result, activa)
                      ELSE df_result,
              tgt |-> df_facturacion,
              ref |-> fe]

(***************************************************************************)
(* Pass B: service/rips_service.py, cruzar_documento_a_nombre               *)
(***************************************************************************)
\* lines 123-143: the DOCUMENTO -> NOMBRE map of the normalized roster copy
MapaNombre(df_facturadores) ==
    LET doc  == NormColumn(df_facturadores, "DOCUMENTO")
        nom  == NormColumn(df_facturadores, "NOMBRE")
        norm == AssignColumn(AssignColumn(df_facturadores, "DOCUMENTO", doc, "object"),
                             "NOMBRE", nom, "object")
    IN  SetIndex(DropDuplicates(DropNa(norm, {"DOCUMENTO", "NOMBRE"}), "DOCUMENTO"),
                 "DOCUMENTO", "NOMBRE")

\* lines 146-154: normalize the user column, map it and fall back to itself
CrossColumn(df_rips, usuario_col, mapa_nombre) ==
    LET norm == NormColumn(df_rips, usuario_col)
    IN  AssignColumn(df_rips, usuario_col, FillNa(MapSeries(norm, mapa_nombre), norm),
                     "object")

cruzar_documento_a_nombre(df_rips, df_facturadores) ==
    LET usuario_col == find_column_variant(df_rips, COLUMN_NAMES_usuario)
    IN  [ret |-> IF \/ IsEmpty(df_rips)
                    \/ IsEmpty(df_facturadores)
                    \/ usuario_col = NoColumn
                    \/ "DOCUMENTO" \notin df_facturadores.cols
                    \/ "NOMBRE" \notin df_facturadores.cols
                 THEN df_rips
                 ELSE CrossColumn(df_rips, usuario_col, MapaNombre(df_facturadores)),
         tgt |-> df_rips,
         ref |-> df_facturadores]

(***************************************************************************)
(* Pass C: data/processors.py, filtrar_por_facturadores                     *)
(***************************************************************************)
\* the normalized values of the comparison column, missing ones included
ValoresValidosConNulos(df_facturadores, tipo_comparacion) ==
    {NormCell(df_facturadores.rows[i][tipo_comparacion],
              df_facturadores.dtype[tipo_comparacion]) :
        i \in 1..Len(df_facturadores.rows)}

\* lines 329-336: the normalized non-null values of the comparison column
ValoresValidos(df_facturadores, tipo_comparacion) ==
    LET nn == DropNa(df_facturadores, {tipo_comparacion})
    IN  {NormCell(nn.rows[i][tipo_comparacion], nn.dtype[tipo_comparacion]) :
            i \in 1..Len(nn.rows)}

\* lines 339-351: the temporary column, the isin mask, and the column dropped again
FilterByValidos(df, columna_usuario, valores_validos) ==
    LET tmp  == AssignColumn(df, "_usuario_norm", NormColumn(df, columna_usuario), "object")
        kept == SelectRows(tmp, {i \in 1..Len(tmp.rows) :
                                    tmp.rows[i]["_usuario_norm"] \in valores_validos})
    IN  DropColumn(kept, "_usuario_norm")

filtrar_por_facturadores(df, df_facturadores, columna_usuario, tipo_comparacion) ==
    [ret |-> IF \/ IsEmpty(df)
                \/ IsEmpty(df_facturadores)
                \/ columna_usuario = NoColumn
                \/ columna_usuario \notin df.cols
                \/ tipo_comparacion \notin df_facturadores.cols
             THEN df
             ELSE FilterByValidos(df, columna_usuario,
                                  ValoresValidos(df_facturadores, tipo_comparacion)),
     tgt |-> df,
     ref |-> df_facturadores]


(***************************************************************************)
(* State                                                                    *)
(***************************************************************************)
VARIABLES
    fn,       \* the pass under call: "A", "B" or "C"
    tgt,      \* the target table handed to the pass
    ref,      \* the reference table handed to the pass
    colArg,   \* columna_usuario of filtrar_por_facturadores
    tipoArg,  \* tipo_comparacion of filtrar_por_facturadores
    pc,       \* "ready": inputs chosen, "done": the pass has returned,
              \* "again": it has also been run on a reordered reference
    res,      \* [ret, tgt, ref]: returned table and the argument tables afterwards
    mapa,     \* the reference map the pass built (empty when it built none)
    res2      \* what the pass returns when the reference rows are reordered

VARIABLES
    session_state,  \* st.session_state: the tables of the session, by key
    FILES           \* the persisted Parquet file of every dataset (None: no file)

passVars == <<fn, tgt, ref, colArg, tipoArg, pc, res, mapa, res2>>
sessVars == <<session_state, FILES>>
vars == <<passVars, sessVars>>

\* no table in the session and no 'initialized' flag, no persisted file
NoSession ==
    [df_ppl |-> NoneT, df_convenios |-> NoneT, df_rips |-> NoneT,
     df_facturacion |-> NoneT, df_facturadores |-> NoneT,
     df_facturacion_electronica |-> NoneT, df_procesos |-> NoneT,
     initialized |-> FALSE]
NoFiles ==
    [PPL |-> NoneT, Convenios |-> NoneT, RIPS |-> NoneT, Facturacion |-> NoneT,
     Facturadores |-> NoneT, FacturacionElectronica |-> NoneT]

(***************************************************************************)
(* Inputs of the passes                                                     *)
(***************************************************************************)
MaxRows == 2
MaxRef == 2

Digits == <<"1", "2", "3", "4", "5", "6", "7", "8", "9">>
\* the i-th row carries the number i in its identifier column
RowId(i) == Num(<<Digits[i]>>)

FacturaVals == {NULL, Str(<<"a">>), Str(<<"A", " ">>)}
UsuarioVals == {Str(<<"x">>), Str(<<"Y">>)}
EstadoVals == {Str(ACTIVO), Str(<<"N", "O">>)}
NroVals == {NULL, Str(<<" ", "a">>)}
DocumentoVals == {NULL, Str(<<"a", " ">>), Num(<<"1">>)}
NombreVals == {NULL, Str(<<"x">>), Str(<<"Y">>)}
AgentVals == {NULL, Str(<<" ", "a">>), Num(<<"1">>)}

EBillingSchemas ==
    {{"FACTURA", "USUARIO", "ESTADO"}, {"USUARIO", "ESTADO"},
     {"FACTURA", "ESTADO"}, {"FACTURA", "USUARIO"}}
RosterSchemas == {{"DOCUMENTO", "NOMBRE"}, {"DOCUMENTO"}}

EBillingRows(S) ==
    {[c \in S |-> CASE c = "FACTURA" -> f [] c = "USUARIO" -> u [] OTHER -> e] :
        f \in FacturaVals, u \in UsuarioVals, e \in EstadoVals}
RosterRows(S) ==
    {[c \in S |-> IF c = "DOCUMENTO" THEN d ELSE n] :
        d \in DocumentoVals, n \in NombreVals}

SeqsUpTo(S, max) == UNION {[1..n -> S] : n \in 0..max}

\* tables whose rows carry an identifier column and, optionally, one more column
KeyedTables(idCol, col, vals, max) ==
    {Table({idCol, col}, [i \in 1..Len(cs) |->
                [c \in {idCol, col} |-> IF c = idCol THEN RowId(i) ELSE cs[i]]]) :
        cs \in SeqsUpTo(vals, max)}
    \cup
    {Table({idCol}, [i \in 1..n |-> [c \in {idCol} |-> RowId(i)]]) : n \in 0..max}

EBillingTables ==
    {NoneT} \cup
    UNION {{Table(S, rows) : rows \in SeqsUpTo(EBillingRows(S), MaxRef)} :
              S \in EBillingSchemas}
RosterTables ==
    {NoneT} \cup
    UNION {{Table(S, rows) : rows \in SeqsUpTo(RosterRows(S), MaxRef)} :
              S \in RosterSchemas}
BillingTables ==
    {NoneT} \cup KeyedTables("NRO_LEGALIACION", "NRO_FACTURACLI", NroVals, MaxRows)
RipsTables ==
    {NoneT} \cup KeyedTables("CÓDIGO", "USUARIO FACTURÓ", AgentVals, MaxRows)

\* RIPS tables over every choice of agent-column synonyms
SynonymVals == {Str(<<" ", "a">>), Str(<<"b">>)}
SynonymTables ==
    UNION {{Table(S \cup {"CÓDIGO"},
                  [i \in 1..Len(rows) |->
                      [c \in S \cup {"CÓDIGO"} |->
                          IF c = "CÓDIGO" THEN RowId(i) ELSE rows[i][c]]]) :
               rows \in SeqsUpTo([S -> SynonymVals], MaxRows)} :
           S \in SUBSET {COLUMN_NAMES_usuario[n] : n \in 1..Len(COLUMN_NAMES_usuario)}}
SynonymRosters ==
    {NoneT} \cup
    {Table({"DOCUMENTO", "NOMBRE"}, <<r>>) : r \in RosterRows({"DOCUMENTO", "NOMBRE"})}

\* the table t with its rows in the order p
Reorder(t, p) == [t EXCEPT !.rows = [i \in 1..Len(t.rows) |-> t.rows[p[i]]]]
\* the orders of n rows other than the given one
RowOrders(n) ==
    {p \in [1..n -> 1..n] : /\ \A i, j \in 1..n : p[i] = p[j] => i = j
                             /\ \E k \in 1..n : p[k] # k}

\* the map a call of Pass A builds (lines 289-295), empty when it builds none
MapBuiltA(df_facturacion, df_fact_elec) ==
    IF IsEmpty(df_facturacion) \/ IsEmpty(df_fact_elec) THEN <<>>
    ELSE LET activa == ActiveRows(NormalizeObjectColumns(df_fact_elec))
         IN  IF "FACTURA" \in activa.cols /\ "USUARIO" \in activa.cols
             THEN MapaUsuario(activa)
             ELSE <<>>

\* the map a call of Pass B builds (lines 138-143), empty when it builds none
MapBuiltB(df_rips, df_facturadores) ==
    IF \/ IsEmpty(df_rips)
       \/ IsEmpty(df_facturadores)
       \/ find_column_variant(df_rips, COLUMN_NAMES_usuario) = NoColumn
       \/ "DOCUMENTO" \notin df_facturadores.cols
       \/ "NOMBRE" \notin df_facturadores.cols
    THEN <<>>
    ELSE MapaNombre(df_facturadores)

NoResult == [ret |-> NoneT, tgt |-> NoneT, ref |-> NoneT]

NotCalled ==
    /\ pc = "ready"
    /\ res = NoResult
    /\ mapa = <<>>
    /\ res2 = NoneT

InitPasses ==
    /\ NotCalled
    /\ session_state = NoSession
    /\ FILES = NoFiles
    /\ \/ /\ fn = "A"
          /\ tgt \in BillingTables
          /\ ref \in EBillingTables
          /\ colArg = NoColumn
          /\ tipoArg = "DOCUMENTO"
       \/ /\ fn = "B"
          /\ tgt \in RipsTables
          /\ ref \in RosterTables
          /\ colArg = NoColumn
          /\ tipoArg = "DOCUMENTO"

InitSinonimos ==
    /\ NotCalled
    /\ session_state = NoSession
    /\ FILES = NoFiles
    /\ fn = "B"
    /\ tgt \in SynonymTables
    /\ ref \in SynonymRosters
    /\ colArg = NoColumn
    /\ tipoArg = "DOCUMENTO"

InitFiltro ==
    /\ NotCalled
    /\ session_state = NoSession
    /\ FILES = NoFiles
    /\ fn = "C"
    /\ tgt \in RipsTables
    /\ ref \in RosterTables
    /\ colArg \in {"USUARIO FACTURÓ", "USUARIO", NoColumn}
    /\ tipoArg \in {"DOCUMENTO", "NOMBRE"}

(***************************************************************************)
(* Calls of the passes                                                      *)
(***************************************************************************)
CallMerge ==
    /\ pc = "ready" /\ fn = "A"
    /\ res' = merge_facturacion_with_electronica(tgt, ref)
    /\ mapa' = MapBuiltA(tgt, ref)
    /\ pc' = "done"
    /\ UNCHANGED <<fn, tgt, ref, colArg, tipoArg, res2, sessVars>>

CallCruzar ==
    /\ pc = "ready" /\ fn = "B"
    /\ res' = cruzar_documento_a_nombre(tgt, ref)
    /\ mapa' = MapBuiltB(tgt, ref)
    /\ pc' = "done"
    /\ UNCHANGED <<fn, tgt, ref, colArg, tipoArg, res2, sessVars>>

CallFiltrar ==
    /\ pc = "ready" /\ fn = "C"
    /\ res' = filtrar_por_facturadores(tgt, ref, colArg, tipoArg)
    /\ pc' = "done"
    /\ UNCHANGED <<fn, tgt, ref, colArg, tipoArg, mapa, res2, sessVars>>

\* the same call of Pass A with the e-billing rows in another order
MergeReordered ==
    /\ pc = "done" /\ fn = "A"
    /\ \E p \in RowOrders(Len(ref.rows)) :
          res2' = merge_facturacion_with_electronica(tgt, Reorder(ref, p)).ret
    /\ pc' = "again"
    /\ UNCHANGED <<fn, tgt, ref, colArg, tipoArg, res, mapa, sessVars>>

\* the same call of Pass B with the roster rows in another order
CruzarReordered ==
    /\ pc = "done" /\ fn = "B"
    /\ \E p \in RowOrders(Len(ref.rows)) :
          res2' = cruzar_documento_a_nombre(tgt, Reorder(ref, p)).ret
    /\ pc' = "again"
    /\ UNCHANGED <<fn, tgt, ref, colArg, tipoArg, res, mapa, sessVars>>

NextPasses ==
    \/ CallMerge
    \/ CallCruzar
    \/ MergeReordered
    \/ CruzarReordered

SpecPasses == InitPasses /\ [][NextPasses]_vars

NextFiltro == CallFiltrar

SpecFiltro == InitFiltro /\ [][NextFiltro]_vars

NextSinonimos == CallCruzar

SpecSinonimos == InitSinonimos /\ [][NextSinonimos]_vars

(***************************************************************************)
(* Dates: pd.to_datetime(errors='coerce')                                   *)
(***************************************************************************)
DigitChars == {"0", "1", "2", "3", "4", "5", "6", "7", "8", "9"}

\* the texts read as a date: year-month-day in ISO form
IsDateText(s) ==
    /\ Len(s) = 10
    /\ s[5] = "-" /\ s[8] = "-"
    /\ \A i \in {1, 2, 3, 4, 6, 7, 9, 10} : s[i] \in DigitChars

\* one cell under pd.to_datetime(errors='coerce'): a text that is no date
\* becomes NaT, a number counts nanoseconds from the epoch
ToDatetime(c) ==
    IF IsDate(c) THEN c
    ELSE IF IsStr(c) /\ IsDateText(c[2]) THEN Date(c[2])
    ELSE IF IsNum(c) THEN Date(<<"e", "p", "o", "c", "h", "+">> \o c[2])
    ELSE NULL

parse_date_column(df, column_name) ==
    IF column_name \notin df.cols THEN df
    ELSE AssignColumn(df, column_name,
                      [i \in 1..Len(df.rows) |-> ToDatetime(df.rows[i][column_name])],
                      "datetime64")

(***************************************************************************)
(* data/processors.py: state filters, partition, merge with the roster      *)
(***************************************************************************)
CONVENIO_PPL ==
    <<"P", "a", "t", "r", "i", "m", "o", "n", "i", "o", " ", 
       "A", "u", "t", "o", "n", "o", "m", "o", " ", "F", "o", "n", "d", "o", " ", 
       "A", "t", "e", "n", "c", "i", "ó", "n", " ", "S", "a", "l", "u", "d", " ", "P", "P", "L", " ", "2", "0", "2", "4">>

\* a state filter that normalizes the states and keeps every row
FilterByEstadoKeepAll(df, estado_column, validos) ==
    AssignColumn(df, estado_column, NormColumn(df, estado_column), "object")

\* df[estado] = df[estado].astype(str).str.strip().str.upper()
\* df = df[df[estado].isin(validos)]
FilterByEstado(df, estado_column, validos) ==
    LET n == AssignColumn(df, estado_column, NormColumn(df, estado_column), "object")
    IN  SelectRows(n, {i \in 1..Len(n.rows) :
                          n.rows[i][estado_column] \in {Str(v) : v \in validos}})

\* a partition that leaves the rows with a null agreement out of both tables
process_legalizaciones_sin_nulos(df) ==
    IF IsEmpty(df) THEN [df_ppl |-> NoneT, df_convenios |-> NoneT]
    ELSE LET d == parse_date_column(df, "FECHA_REAL")
             f == IF "ESTADO" \in d.cols
                  THEN FilterByEstado(d, "ESTADO", ESTADOS_VALIDOS_LEGALIZACIONES)
                  ELSE d
         IN  IF "CONVENIO" \in f.cols
             THEN [df_ppl |->
                      SelectRows(f, {i \in 1..Len(f.rows) :
                                        f.rows[i]["CONVENIO"] = Str(CONVENIO_PPL)}),
                   df_convenios |->
                      SelectRows(f, {i \in 1..Len(f.rows) :
                                        /\ ~IsNull(f.rows[i]["CONVENIO"])
                                        /\ f.rows[i]["CONVENIO"] # Str(CONVENIO_PPL)})]
             ELSE [df_ppl |-> NoneT, df_convenios |-> NoneT]

process_legalizaciones(df) ==
    IF IsEmpty(df) THEN [df_ppl |-> NoneT, df_convenios |-> NoneT]
    ELSE LET d == parse_date_column(df, "FECHA_REAL")
             f == IF "ESTADO" \in d.cols
                  THEN FilterByEstado(d, "ESTADO", ESTADOS_VALIDOS_LEGALIZACIONES)
                  ELSE d
         IN  IF "CONVENIO" \in f.cols
             THEN [df_ppl |->
                      SelectRows(f, {i \in 1..Len(f.rows) :
                                        f.rows[i]["CONVENIO"] = Str(CONVENIO_PPL)}),
                   df_convenios |->
                      SelectRows(f, {i \in 1..Len(f.rows) :
                                        f.rows[i]["CONVENIO"] # Str(CONVENIO_PPL)})]
             ELSE [df_ppl |-> NoneT, df_convenios |-> NoneT]

\* a processor that returns None when the state filter leaves no row
process_rips_none_when_empty(df) ==
    IF IsEmpty(df) THEN NoneT
    ELSE LET d == parse_date_column(df, "FECHA_REAL")
             f == IF "ESTADO" \in d.cols
                  THEN FilterByEstado(d, "ESTADO", ESTADOS_VALIDOS_RIPS)
                  ELSE d
         IN  IF f.rows = <<>> THEN NoneT ELSE f

process_rips(df) ==
    IF IsEmpty(df) THEN NoneT
    ELSE LET d == parse_date_column(df, "FECHA_REAL")
         IN  IF "ESTADO" \in d.cols
             THEN FilterByEstado(d, "ESTADO", ESTADOS_VALIDOS_RIPS)
             ELSE d

process_facturacion(df) ==
    IF IsEmpty(df) THEN NoneT ELSE parse_date_column(df, "FECHA_FACTURA")

process_facturacion_electronica(df) ==
    IF IsEmpty(df) THEN NoneT
    ELSE LET d == parse_date_column(df, "FECHA RADICACIÓN")
         IN  IF "ESTADO" \in d.cols
             THEN FilterByEstado(d, "ESTADO", ESTADOS_VALIDOS_FACTURACION_ELECTRONICA)
             ELSE d

RECURSIVE MergePairs(_, _, _, _, _)
\* the row pairs <<i, j>> of a left join on l[a] = r[b], from left row i on:
\* left order first, then right order; j = 0 when no right row matches
MergePairs(l, r, a, b, i) ==
    IF i > Len(l.rows) THEN <<>>
    ELSE LET hits == Pick([j \in 1..Len(r.rows) |-> j],
                          {j \in 1..Len(r.rows) : r.rows[j][b] = l.rows[i][a]}, 1)
         IN  (IF hits = <<>> THEN << <<i, 0>> >>
              ELSE [k \in 1..Len(hits) |-> <<i, hits[k]>>])
             \o MergePairs(l, r, a, b, i + 1)

\* pd.merge(l, r, left_on=a, right_on=b, how="left"): a column name the two
\* tables share, other than a common key, gets the suffixes _x and _y
pd_merge_left(l, r, a, b) ==
    LET same     == IF a = b THEN {a} ELSE {}
        shared   == (l.cols \cap r.cols) \ same
        rcols    == r.cols \ same
        lname(c) == IF c \in shared THEN c \o "_x" ELSE c
        rname(c) == IF c \in shared THEN c \o "_y" ELSE c
        lnames   == {lname(c) : c \in l.cols}
        cols     == lnames \cup {rname(c) : c \in rcols}
        lsrc(n)  == CHOOSE c \in l.cols : lname(c) = n
        rsrc(n)  == CHOOSE c \in rcols : rname(c) = n
        pairs    == MergePairs(l, r, a, b, 1)
        unmatched == \E k \in 1..Len(pairs) : pairs[k][2] = 0
    IN  [isNone |-> FALSE,
         cols   |-> cols,
         dtype  |-> [n \in cols |->
                       IF n \in lnames THEN l.dtype[lsrc(n)]
                       ELSE IF r.dtype[rsrc(n)] = "int64" /\ unmatched THEN "float64"
                       ELSE r.dtype[rsrc(n)]],
         rows   |-> [k \in 1..Len(pairs) |->
                       [n \in cols |->
                           IF n \in lnames THEN l.rows[pairs[k][1]][lsrc(n)]
                           ELSE IF pairs[k][2] = 0 THEN NULL
                           ELSE r.rows[pairs[k][2]][rsrc(n)]]]]

\* [raised, df]: pd.merge raises when one key column is text and the other is not
merge_with_facturadores(df, df_facturadores, usuario_column) ==
    IF IsEmpty(df) \/ IsEmpty(df_facturadores) THEN [raised |-> FALSE, df |-> df]
    ELSE IF usuario_column \notin df.cols \/ "USUARIO" \notin df_facturadores.cols
    THEN [raised |-> FALSE, df |-> df]
    ELSE IF (df.dtype[usuario_column] = "object") # (df_facturadores.dtype["USUARIO"] = "object")
    THEN [raised |-> TRUE, df |-> df]
    ELSE [raised |-> FALSE,
          df |-> pd_merge_left(df, df_facturadores, usuario_column, "USUARIO")]

(***************************************************************************)
(* data/validators.py                                                       *)
(***************************************************************************)
COLUMN_NAMES_fecha ==
    <<"FECHA_REAL", "FECHA_FACTURA", "FECHA", "FECHA RADICACIÓN", "FECHA LEGALIZACIÓN">>

\* A message is the sequence of its parts: a fixed text, then the column
\* names ', '.join(missing) puts into it, one part per name.

\* [is_valid, missing]: the required columns the table lacks, in list order;
\* every required column when the table is None or empty
validate_required_columns(df, required_columns) ==
    IF IsEmpty(df) THEN [is_valid |-> FALSE, missing |-> required_columns]
    ELSE LET missing == SelectSeq(required_columns, LAMBDA col : col \notin df.cols)
         IN  [is_valid |-> missing = <<>>, missing |-> missing]

\* a validation that asks for the state column only
validate_legalizaciones_sin_convenio(df) ==
    LET v == validate_required_columns(df, <<"ESTADO">>)
    IN  IF \/ find_column_variant(df, COLUMN_NAMES_usuario) = NoColumn
           \/ find_column_variant(df, COLUMN_NAMES_fecha) = NoColumn
        THEN [is_valid |-> FALSE, message |-> <<"Faltan columnas de USUARIO o FECHA">>]
        ELSE IF ~v.is_valid
        THEN [is_valid |-> FALSE, message |-> <<"Faltan columnas: ">> \o v.missing]
        ELSE [is_valid |-> TRUE, message |-> <<"Validación exitosa">>]

validate_legalizaciones(df) ==
    LET v == validate_required_columns(df, <<"ESTADO", "CONVENIO">>)
    IN  IF \/ find_column_variant(df, COLUMN_NAMES_usuario) = NoColumn
           \/ find_column_variant(df, COLUMN_NAMES_fecha) = NoColumn
        THEN [is_valid |-> FALSE, message |-> <<"Faltan columnas de USUARIO o FECHA">>]
        ELSE IF ~v.is_valid
        THEN [is_valid |-> FALSE, message |-> <<"Faltan columnas: ">> \o v.missing]
        ELSE [is_valid |-> TRUE, message |-> <<"Validación exitosa">>]

validate_rips(df) ==
    LET v == validate_required_columns(df, <<"ESTADO">>)
    IN  IF \/ find_column_variant(df, COLUMN_NAMES_usuario) = NoColumn
           \/ find_column_variant(df, COLUMN_NAMES_fecha) = NoColumn
        THEN [is_valid |-> FALSE, message |-> <<"Faltan columnas de USUARIO o FECHA">>]
        ELSE IF ~v.is_valid
        THEN [is_valid |-> FALSE, message |-> <<"Faltan columnas: ">> \o v.missing]
        ELSE [is_valid |-> TRUE, message |-> <<"Validación exitosa">>]

\* df.columns of None raises
validate_facturacion(df) ==
    IF df.isNone THEN [raised |-> TRUE, is_valid |-> FALSE, message |-> <<>>]
    ELSE IF "NRO_LEGALIACION" \notin df.cols /\ "NRO_LEGALIZACION" \notin df.cols
    THEN [raised |-> FALSE, is_valid |-> FALSE,
          message |-> <<"Falta columna NRO_LEGALIACION o NRO_LEGALIZACION">>]
    ELSE [raised |-> FALSE, is_valid |-> TRUE, message |-> <<"Validación exitosa">>]

(***************************************************************************)
(* service/*.py: validation, processing and enrichment of one upload        *)
(***************************************************************************)
\* "error": None
NoError == <<>>

procesar_legalizaciones(df, df_facturadores) ==
    LET v  == validate_legalizaciones(df)
        p  == process_legalizaciones(df)
        c1 == IF p.df_ppl.isNone THEN NoColumn
              ELSE find_column_variant(p.df_ppl, COLUMN_NAMES_usuario)
        m1 == IF ~df_facturadores.isNone /\ c1 # NoColumn
              THEN merge_with_facturadores(p.df_ppl, df_facturadores, c1)
              ELSE [raised |-> FALSE, df |-> p.df_ppl]
        c2 == IF p.df_convenios.isNone THEN NoColumn
              ELSE find_column_variant(p.df_convenios, COLUMN_NAMES_usuario)
        m2 == IF ~df_facturadores.isNone /\ c2 # NoColumn
              THEN merge_with_facturadores(p.df_convenios, df_facturadores, c2)
              ELSE [raised |-> FALSE, df |-> p.df_convenios]
    IN  IF ~v.is_valid
        THEN [raised |-> FALSE, error |-> v.message,
              df_ppl |-> NoneT, df_convenios |-> NoneT]
        ELSE IF m1.raised \/ m2.raised
        THEN [raised |-> TRUE, error |-> NoError,
              df_ppl |-> NoneT, df_convenios |-> NoneT]
        ELSE [raised |-> FALSE, error |-> NoError,
              df_ppl |-> m1.df, df_convenios |-> m2.df]

procesar_rips(df, df_facturadores) ==
    LET v == validate_rips(df)
        p == process_rips(df)
        c == find_column_variant(p, COLUMN_NAMES_usuario)
        m == IF c # NoColumn THEN merge_with_facturadores(p, df_facturadores, c)
             ELSE [raised |-> FALSE, df |-> p]
    IN  IF ~v.is_valid
        THEN [raised |-> FALSE, error |-> v.message, df_rips |-> NoneT]
        ELSE IF df_facturadores.isNone \/ p.isNone
        THEN [raised |-> FALSE, error |-> NoError, df_rips |-> p]
        ELSE IF m.raised
        THEN [raised |-> TRUE, error |-> NoError, df_rips |-> NoneT]
        ELSE [raised |-> FALSE, error |-> NoError,
              df_rips |-> cruzar_documento_a_nombre(m.df, df_facturadores).ret]

procesar_facturacion(df, df_facturadores) ==
    LET v == validate_facturacion(df)
        p == process_facturacion(df)
        c == find_column_variant(p, COLUMN_NAMES_usuario)
        m == IF c # NoColumn THEN merge_with_facturadores(p, df_facturadores, c)
             ELSE [raised |-> FALSE, df |-> p]
    IN  IF v.raised
        THEN [raised |-> TRUE, error |-> NoError, df_facturacion |-> NoneT]
        ELSE IF ~v.is_valid
        THEN [raised |-> FALSE, error |-> v.message, df_facturacion |-> NoneT]
        ELSE IF df_facturadores.isNone \/ p.isNone
        THEN [raised |-> FALSE, error |-> NoError, df_facturacion |-> p]
        ELSE IF m.raised
        THEN [raised |-> TRUE, error |-> NoError, df_facturacion |-> NoneT]
        ELSE [raised |-> FALSE, error |-> NoError, df_facturacion |-> m.df]

(***************************************************************************)
(* Persistence: utils/file_helpers.py, data/loaders.py                      *)
(***************************************************************************)
\* a coercion to text that also trims the text
astype_str_stripped(df) ==
    [isNone |-> FALSE,
     cols   |-> df.cols,
     dtype  |-> [c \in df.cols |-> "object"],
     rows   |-> [i \in 1..Len(df.rows) |->
                   [c \in df.cols |-> Str(Strip(AsTypeStr(df.rows[i][c], df.dtype[c])))]]]

\* df.astype(str): every cell becomes its text
astype_str(df) ==
    [isNone |-> FALSE,
     cols   |-> df.cols,
     dtype  |-> [c \in df.cols |-> "object"],
     rows   |-> [i \in 1..Len(df.rows) |->
                   [c \in df.cols |-> Str(AsTypeStr(df.rows[i][c], df.dtype[c]))]]]

\* a file whose write was cut short: it exists and pd.read_parquet cannot
\* read it
TruncatedFile ==
    [isNone |-> FALSE, cols |-> {"<truncated>"},
     dtype |-> [c \in {"<truncated>"} |-> "object"], rows |-> <<>>]

\* df.astype(str).to_parquet(filepath) can fail before the file is opened
\* (the conversion) or after it was opened for writing (the write)
Faults == {"none", "before_open", "during_write"}

\* save_to_parquet(df, filepath) on a file of content file: [ret, file], the
\* value returned and the content afterwards.  Nothing is written for None or
\* an empty table; to_parquet opens filepath itself for writing, which
\* truncates it; every exception is caught and False is returned.
save_to_parquet_result(df, file, fault) ==
    IF IsEmpty(df) THEN [ret |-> FALSE, file |-> file]
    ELSE IF fault = "none" THEN [ret |-> TRUE, file |-> astype_str(df)]
    ELSE IF fault = "before_open" THEN [ret |-> FALSE, file |-> file]
    ELSE [ret |-> FALSE, file |-> TruncatedFile]

\* the content of the file after a save_to_parquet(df, filepath) whose write
\* succeeds
save_to_parquet(df, file) == save_to_parquet_result(df, file, "none").file

\* os.remove of the files of keys that exist; the removal is taken to succeed
RemoveFiles(files, keys) ==
    [k \in DOMAIN files |-> IF k \in keys THEN NoneT ELSE files[k]]

(***************************************************************************)
(* Uploaded files and the master roster                                     *)
(***************************************************************************)
MaxUpload == 2

FechaText == Str(<<"2", "0", "2", "4", "-", "0", "1", "-", "0", "5">>)

\* state and agreement of one legalization row
LegalizacionCells ==
    {<<Str(<<"A", "c", "t", "i", "v", "a", " ">>), Str(CONVENIO_PPL)>>,
     <<Str(<<"A", "c", "t", "i", "v", "a", " ">>), Str(<<"x">>)>>,
     <<Str(<<"A", "N", "U", "L", "A", "D", "A">>), Str(CONVENIO_PPL)>>}

LegalizacionesRow(i, e, withEstado) ==
    LET cols == {"ID_LEGALIZACION", "CONVENIO", "USUARIO", "FECHA_REAL"}
                   \cup (IF withEstado THEN {"ESTADO"} ELSE {})
    IN  [c \in cols |->
            IF c = "ID_LEGALIZACION" THEN RowId(i)
            ELSE IF c = "ESTADO" THEN e[1]
            ELSE IF c = "CONVENIO" THEN e[2]
            ELSE IF c = "USUARIO" THEN Str(<<" ", "a">>)
            ELSE FechaText]

\* what load_uploaded_file returns for a legalizations file: None when the
\* header marker is not found
LegalizacionesUploads ==
    {NoneT}
    \cup {Table({"ID_LEGALIZACION", "ESTADO", "CONVENIO", "USUARIO", "FECHA_REAL"},
                [i \in 1..Len(es) |-> LegalizacionesRow(i, es[i], TRUE)]) :
             es \in SeqsUpTo(LegalizacionCells, MaxUpload)}
    \cup {Table({"ID_LEGALIZACION", "CONVENIO", "USUARIO", "FECHA_REAL"},
                <<LegalizacionesRow(1, e, FALSE)>>) :
             e \in {<<NULL, Str(CONVENIO_PPL)>>}}
    \cup {Table(S, <<[c \in S |-> LegalizacionesRow(1, e, TRUE)[c]]>>) :
             S \in {{"ID_LEGALIZACION", "ESTADO", "USUARIO", "FECHA_REAL"},
                    {"ID_LEGALIZACION", "ESTADO", "FECHA_REAL"}},
             e \in {<<Str(<<"A", "c", "t", "i", "v", "a", " ">>), NULL>>}}

RipsRow(e, withEstado) ==
    LET cols == {"CÓDIGO", "USUARIO FACTURÓ", "FECHA_REAL"}
                   \cup (IF withEstado THEN {"ESTADO"} ELSE {})
    IN  [c \in cols |->
            IF c = "CÓDIGO" THEN Num(<<"8">>)
            ELSE IF c = "ESTADO" THEN e
            ELSE IF c = "USUARIO FACTURÓ" THEN Str(<<" ", "a">>)
            ELSE FechaText]

RipsUploads ==
    {NoneT}
    \cup {Table({"CÓDIGO", "ESTADO", "USUARIO FACTURÓ", "FECHA_REAL"},
                [i \in 1..Len(es) |-> RipsRow(es[i], TRUE)]) :
             es \in SeqsUpTo({Str(<<"c", "o", "m", "p", "l", "e", "t", "o", " ">>), Str(<<"A", "N", "U", "L", "A", "D", "O">>)}, MaxUpload)}
    \cup {Table({"CÓDIGO", "USUARIO FACTURÓ", "FECHA_REAL"}, <<RipsRow(NULL, FALSE)>>)}

FacturacionUploads ==
    {NoneT}
    \cup {Table({"NRO_LEGALIACION", "NRO_FACTURACLI", "FECHA_FACTURA"},
                [i \in 1..n |->
                    [NRO_LEGALIACION |-> RowId(i),
                     NRO_FACTURACLI  |-> Str(<<" ", "a">>),
                     FECHA_FACTURA   |-> FechaText]]) :
             n \in {0, 1}}

FacturacionElectronicaRow(e, withEstado) ==
    LET cols == {"IDENTIFICACION", "FACTURA", "USUARIO"}
                   \cup (IF withEstado THEN {"ESTADO"} ELSE {})
    IN  [c \in cols |->
            IF c = "IDENTIFICACION" THEN Num(<<"7">>)
            ELSE IF c = "ESTADO" THEN e
            ELSE IF c = "FACTURA" THEN Str(<<"a">>)
            ELSE Str(<<"x">>)]

FacturacionElectronicaUploads ==
    {NoneT}
    \cup {Table({"IDENTIFICACION", "FACTURA", "USUARIO", "ESTADO"},
                [i \in 1..Len(es) |-> FacturacionElectronicaRow(es[i], TRUE)]) :
             es \in SeqsUpTo({Str(<<"A", "c", "t", "i", "v", "o">>), Str(<<"A", "N", "U", "L", "A", "D", "O">>)}, MaxUpload)}
    \cup {Table({"IDENTIFICACION", "FACTURA", "USUARIO"},
                <<FacturacionElectronicaRow(NULL, FALSE)>>)}

\* what load_facturadores_master returns: the roster, or None when neither
\* the secrets nor the workbook can be read
MasterRosters ==
    {NoneT,
     Table({"DOCUMENTO", "NOMBRE", "USUARIO"},
           << [DOCUMENTO |-> Str(<<"a", " ">>),
               NOMBRE    |-> Str(<<"x">>),
               USUARIO   |-> Str(<<" ", "a">>)] >>)}

(***************************************************************************)
(* The session: handlers of ui/file_upload.py                               *)
(***************************************************************************)
\* no pass is under call
Idle ==
    /\ NotCalled
    /\ fn = "-"
    /\ tgt = NoneT
    /\ ref = NoneT
    /\ colArg = NoColumn
    /\ tipoArg = "DOCUMENTO"

\* pd.read_parquet of a file save_to_parquet wrote: the table as text; None
\* when there is no file or when reading it raises
load_from_parquet(file) == IF file = TruncatedFile THEN NoneT ELSE file

\* the dict literal reads FILES["ArchivoProcesos"], a key FILES may not have
load_all_persisted_data ==
    IF "ArchivoProcesos" \notin DOMAIN FILES
    THEN [raised |-> TRUE, data |-> <<>>]
    ELSE [raised |-> FALSE,
          data |-> [ppl |-> load_from_parquet(FILES.PPL),
                    convenios |-> load_from_parquet(FILES.Convenios),
                    rips |-> load_from_parquet(FILES.RIPS),
                    facturacion |-> load_from_parquet(FILES.Facturacion),
                    facturadores |-> load_from_parquet(FILES.Facturadores),
                    facturacion_electronica |->
                        load_from_parquet(FILES.FacturacionElectronica),
                    procesos |-> load_from_parquet(FILES.ArchivoProcesos)]]

\* init_session_state in a session that has no 'initialized' flag, with what
\* load_facturadores_master would return: [raised, session_state].  An
\* exception leaves the new session as it was, without tables and flag.
InitSessionState(master) ==
    LET loaded == load_all_persisted_data
        data   == loaded.data
        df_facturadores ==
            IF data.facturadores.isNone THEN master ELSE data.facturadores
        df_rips ==
            IF ~data.rips.isNone /\ ~df_facturadores.isNone
            THEN cruzar_documento_a_nombre(data.rips, df_facturadores).ret
            ELSE data.rips
    IN  IF loaded.raised
        THEN [raised |-> TRUE, session_state |-> NoSession]
        ELSE [raised |-> FALSE,
              session_state |->
                  [df_ppl |-> data.ppl,
                   df_convenios |-> data.convenios,
                   df_rips |-> df_rips,
                   df_facturacion |-> data.facturacion,
                   df_facturadores |-> df_facturadores,
                   df_facturacion_electronica |-> data.facturacion_electronica,
                   df_procesos |-> data.procesos,
                   initialized |-> TRUE]]

\* the first session over an empty storage, once init_session_state is over
Init ==
    /\ Idle
    /\ FILES = NoFiles
    /\ \E master \in MasterRosters :
          session_state = InitSessionState(master).session_state

\* len(df) if df is not None and not df.empty else 0
Count(df) == IF IsEmpty(df) THEN 0 ELSE Len(df.rows)

\* The handlers leave by an early return on three paths: the header marker is
\* not found (load_uploaded_file returns None), the result carries an error,
\* no row is left after processing; an exception ends in the except clause.
\* On each of them nothing has been assigned or saved yet.
Rejections == {"no_marker", "invalid", "empty", "raised"}

LegalizacionesOutcome(df, result) ==
    IF df.isNone THEN "no_marker"
    ELSE IF result.raised THEN "raised"
    ELSE IF result.error # NoError THEN "invalid"
    ELSE IF Count(result.df_ppl) = 0 /\ Count(result.df_convenios) = 0 THEN "empty"
    ELSE "saved"

\* the handler with the assignment and the save placed before the test of
\* the row counts
LegalizacionesStep_store_first(df, result) ==
    IF LegalizacionesOutcome(df, result) \in Rejections \ {"empty"}
    THEN UNCHANGED sessVars
    ELSE /\ session_state' =
               [session_state EXCEPT !.df_ppl = result.df_ppl,
                                     !.df_convenios = result.df_convenios]
         /\ FILES' =
               [FILES EXCEPT
                   !.PPL = save_to_parquet(result.df_ppl, @),
                   !.Convenios = save_to_parquet(result.df_convenios, @)]

\* what the handler does to the session and the files, given the table read
\* from the file and the result of procesar_legalizaciones for it
LegalizacionesStep(df, result) ==
    IF LegalizacionesOutcome(df, result) \in Rejections
    THEN UNCHANGED sessVars
    ELSE /\ session_state' =
               [session_state EXCEPT !.df_ppl = result.df_ppl,
                                     !.df_convenios = result.df_convenios]
         /\ FILES' =
               [FILES EXCEPT
                   !.PPL = save_to_parquet(result.df_ppl, @),
                   !.Convenios = save_to_parquet(result.df_convenios, @)]

render_legalizaciones_upload ==
    \E df \in LegalizacionesUploads :
        LET result == procesar_legalizaciones(df, session_state.df_facturadores)
        IN  LegalizacionesStep(df, result) /\ UNCHANGED passVars

RipsOutcome(df, result) ==
    IF df.isNone THEN "no_marker"
    ELSE IF result.raised THEN "raised"
    ELSE IF result.error # NoError THEN "invalid"
    ELSE IF Count(result.df_rips) = 0 THEN "empty"
    ELSE "saved"

RipsStep(df, result) ==
    IF RipsOutcome(df, result) \in Rejections
    THEN UNCHANGED sessVars
    ELSE /\ session_state' = [session_state EXCEPT !.df_rips = result.df_rips]
         /\ FILES' = [FILES EXCEPT !.RIPS = save_to_parquet(result.df_rips, @)]

render_rips_upload ==
    \E df \in RipsUploads :
        LET result == procesar_rips(df, session_state.df_facturadores)
        IN  RipsStep(df, result) /\ UNCHANGED passVars

FacturacionOutcome(df, result) ==
    IF df.isNone THEN "no_marker"
    ELSE IF result.raised THEN "raised"
    ELSE IF result.error # NoError THEN "invalid"
    ELSE IF Count(result.df_facturacion) = 0 THEN "empty"
    ELSE "saved"

FacturacionStep(df, result) ==
    IF FacturacionOutcome(df, result) \in Rejections
    THEN UNCHANGED sessVars
    ELSE /\ session_state' =
               [session_state EXCEPT !.df_facturacion = result.df_facturacion]
         /\ FILES' =
               [FILES EXCEPT
                   !.Facturacion = save_to_parquet(result.df_facturacion, @)]

render_facturacion_upload ==
    \E df \in FacturacionUploads :
        LET result == procesar_facturacion(df, session_state.df_facturadores)
        IN  FacturacionStep(df, result) /\ UNCHANGED passVars

\* the e-billing upload goes to process_facturacion_electronica without a
\* structural validation
FacturacionElectronicaOutcome(df, df_proc) ==
    IF df.isNone THEN "no_marker"
    ELSE IF Count(df_proc) = 0 THEN "empty"
    ELSE "saved"

FacturacionElectronicaStep(df, df_proc) ==
    IF FacturacionElectronicaOutcome(df, df_proc) \in Rejections
    THEN UNCHANGED sessVars
    ELSE /\ session_state' =
               [session_state EXCEPT !.df_facturacion_electronica = df_proc]
         /\ FILES' =
               [FILES EXCEPT
                   !.FacturacionElectronica = save_to_parquet(df_proc, @)]

render_facturacion_electronica_upload ==
    \E df \in FacturacionElectronicaUploads :
        LET df_proc == process_facturacion_electronica(df)
        IN  FacturacionElectronicaStep(df, df_proc) /\ UNCHANGED passVars

\* button "Recargar Facturadores" of render_facturadores_reload
\* a reload that stores what the loader returned, None included
RecargarStep_store_none(df_facturadores) ==
    /\ session_state' = [session_state EXCEPT !.df_facturadores = df_facturadores]
    /\ FILES' = [FILES EXCEPT !.Facturadores = save_to_parquet(df_facturadores, @)]

\* lines 349-362: the early return when the loader gave None
RecargarStep(df_facturadores) ==
    IF df_facturadores.isNone
    THEN UNCHANGED sessVars
    ELSE /\ session_state' =
               [session_state EXCEPT !.df_facturadores = df_facturadores]
         /\ FILES' =
               [FILES EXCEPT !.Facturadores = save_to_parquet(df_facturadores, @)]

RecargarFacturadores ==
    \E df_facturadores \in MasterRosters :
        RecargarStep(df_facturadores) /\ UNCHANGED passVars

\* button "Recruzar RIPS" of render_facturadores_reload
RecruzarRips ==
    LET df_rips == session_state.df_rips
        df_facturadores == session_state.df_facturadores
        df_rips_cruzado == cruzar_documento_a_nombre(df_rips, df_facturadores).ret
    IN  /\ IF \/ IsEmpty(df_rips)
              \/ IsEmpty(df_facturadores)
              \/ find_column_variant(df_rips, COLUMN_NAMES_usuario) = NoColumn
           THEN UNCHANGED sessVars
           ELSE /\ session_state' = [session_state EXCEPT !.df_rips = df_rips_cruzado]
                /\ FILES' = [FILES EXCEPT !.RIPS = save_to_parquet(df_rips_cruzado, @)]
        /\ UNCHANGED passVars

\* the session keys are set to None, then the files are removed one by one
clear_data_type(session_keys, file_keys) ==
    /\ session_state' =
          [k \in DOMAIN session_state |->
              IF k \in session_keys THEN NoneT ELSE session_state[k]]
    /\ FILES' = RemoveFiles(FILES, file_keys)
    /\ UNCHANGED passVars

ClearLegalizaciones == clear_data_type({"df_ppl", "df_convenios"}, {"PPL", "Convenios"})
ClearRips == clear_data_type({"df_rips"}, {"RIPS"})
ClearFacturacion == clear_data_type({"df_facturacion"}, {"Facturacion"})
ClearFacturacionElectronica ==
    clear_data_type({"df_facturacion_electronica"}, {"FacturacionElectronica"})

clear_all_data ==
    LET keys_to_clear ==
            {"df_ppl", "df_convenios", "df_rips", "df_facturacion",
             "df_facturacion_electronica", "df_procesos"}
        files_to_delete ==
            {"PPL", "Convenios", "RIPS", "Facturacion", "FacturacionElectronica",
             "ArchivoProcesos"}
    IN  clear_data_type(keys_to_clear, files_to_delete)

Next ==
    \/ render_legalizaciones_upload
    \/ render_rips_upload
    \/ render_facturacion_upload
    \/ render_facturacion_electronica_upload
    \/ RecargarFacturadores
    \/ RecruzarRips
    \/ ClearLegalizaciones
    \/ ClearRips
    \/ ClearFacturacion
    \/ ClearFacturacionElectronica
    \/ clear_all_data

Spec == Init /\ [][Next]_vars

(***************************************************************************)
(* The session under observation: the run of a handler that ends in a       *)
(* rejection, or of init_session_state in a new session, is recorded in fn  *)
(* (the handler), tgt (the table read from the file), pc (how it ended) and *)
(* res (the error it reported).  A recorded run is followed no further: the *)
(* session and the files after a rejection are the ones before it.          *)
(***************************************************************************)
Observe(handler, df, outcome, error) ==
    IF outcome \in Rejections
    THEN /\ fn' = handler
         /\ tgt' = df
         /\ pc' = outcome
         /\ res' = [error |-> error]
         /\ UNCHANGED <<ref, colArg, tipoArg, mapa, res2>>
    ELSE UNCHANGED passVars

LegalizacionesUploadObserved ==
    /\ pc = "ready"
    /\ \E df \in LegalizacionesUploads :
          LET result == procesar_legalizaciones(df, session_state.df_facturadores)
          IN  /\ LegalizacionesStep(df, result)
              /\ Observe("render_legalizaciones_upload", df,
                         LegalizacionesOutcome(df, result),
                         IF df.isNone THEN NoError ELSE result.error)

RipsUploadObserved ==
    /\ pc = "ready"
    /\ \E df \in RipsUploads :
          LET result == procesar_rips(df, session_state.df_facturadores)
          IN  /\ RipsStep(df, result)
              /\ Observe("render_rips_upload", df, RipsOutcome(df, result),
                         IF df.isNone THEN NoError ELSE result.error)

FacturacionUploadObserved ==
    /\ pc = "ready"
    /\ \E df \in FacturacionUploads :
          LET result == procesar_facturacion(df, session_state.df_facturadores)
          IN  /\ FacturacionStep(df, result)
              /\ Observe("render_facturacion_upload", df,
                         FacturacionOutcome(df, result),
                         IF df.isNone THEN NoError ELSE result.error)

FacturacionElectronicaUploadObserved ==
    /\ pc = "ready"
    /\ \E df \in FacturacionElectronicaUploads :
          LET df_proc == process_facturacion_electronica(df)
          IN  /\ FacturacionElectronicaStep(df, df_proc)
              /\ Observe("render_facturacion_electronica_upload", df,
                         FacturacionElectronicaOutcome(df, df_proc), NoError)

\* a new session starts with an empty st.session_state and runs
\* init_session_state over the files the earlier session left
init_session_state ==
    /\ pc = "ready"
    /\ \E master \in MasterRosters :
          LET r == InitSessionState(master)
          IN  /\ session_state' = r.session_state
              /\ pc' = IF r.raised THEN "raised" ELSE "done"
    /\ fn' = "init_session_state"
    /\ UNCHANGED <<FILES, tgt, ref, colArg, tipoArg, res, mapa, res2>>

NextCargas ==
    \/ LegalizacionesUploadObserved
    \/ RipsUploadObserved
    \/ FacturacionUploadObserved
    \/ FacturacionElectronicaUploadObserved
    \/ pc = "ready" /\ RecargarFacturadores
    \/ pc = "ready" /\ RecruzarRips
    \/ pc = "ready" /\ ClearLegalizaciones
    \/ pc = "ready" /\ ClearRips
    \/ pc = "ready" /\ ClearFacturacion
    \/ pc = "ready" /\ ClearFacturacionElectronica
    \/ pc = "ready" /\ clear_all_data
    \/ init_session_state

SpecCargas == Init /\ [][NextCargas]_vars


(***************************************************************************)
(* Calls of the processing functions on one table: the upload path          *)
(* (service/*.py) and the processors it runs (data/processors.py)           *)
(***************************************************************************)
EstadoCells ==
    {Str(<<"A", "c", "t", "i", "v", "a", " ">>), Str(<<"A", "N", "U", "L", "A", "D", "A">>), NULL}
ConvenioCells == {Str(CONVENIO_PPL), Str(<<"x">>), NULL}

LegalizacionColumns == {"ID_LEGALIZACION", "ESTADO", "CONVENIO", "USUARIO", "FECHA_REAL"}

\* the legalization tables a file can hold: with every column, or without
\* the state, the agreement or the agent column
LegalizacionSchemas ==
    {LegalizacionColumns,
     LegalizacionColumns \ {"ESTADO"},
     LegalizacionColumns \ {"CONVENIO"},
     LegalizacionColumns \ {"ESTADO", "CONVENIO"},
     LegalizacionColumns \ {"CONVENIO", "USUARIO"}}

LegalizacionRecord(S, i, e, k) ==
    [c \in S |->
        CASE c = "ID_LEGALIZACION" -> RowId(i)
          [] c = "ESTADO" -> e
          [] c = "CONVENIO" -> k
          [] c = "USUARIO" -> Str(<<" ", "a">>)
          [] OTHER -> FechaText]

LegalizacionTables ==
    {NoneT} \cup
    UNION {{Table(S, [i \in 1..Len(ek) |-> LegalizacionRecord(S, i, ek[i][1], ek[i][2])]) :
               ek \in SeqsUpTo((IF "ESTADO" \in S THEN EstadoCells ELSE {NULL})
                                  \X (IF "CONVENIO" \in S THEN ConvenioCells ELSE {NULL}),
                               MaxUpload)} :
           S \in LegalizacionSchemas}

RipsColumns == {"CÓDIGO", "ESTADO", "USUARIO FACTURÓ", "FECHA_REAL"}
RipsSchemas ==
    {RipsColumns, RipsColumns \ {"ESTADO"}, RipsColumns \ {"USUARIO FACTURÓ"},
     RipsColumns \ {"ESTADO", "FECHA_REAL"}}

RipsRecord(S, i, e) ==
    [c \in S |->
        CASE c = "CÓDIGO" -> RowId(i)
          [] c = "ESTADO" -> e
          [] c = "USUARIO FACTURÓ" -> Str(<<" ", "a">>)
          [] OTHER -> FechaText]

RipsEstadoCells ==
    {Str(<<"c", "o", "m", "p", "l", "e", "t", "o", " ">>), Str(<<"A", "N", "U", "L", "A", "D", "O">>), NULL}

RipsFiles ==
    {NoneT} \cup
    UNION {{Table(S, [i \in 1..Len(es) |-> RipsRecord(S, i, es[i])]) :
               es \in SeqsUpTo(IF "ESTADO" \in S THEN RipsEstadoCells ELSE {NULL},
                               MaxUpload)} :
           S \in RipsSchemas}

\* billing tables: as uploaded, and without the legalization number
FacturacionTables ==
    FacturacionUploads
    \cup {Table({"NRO_FACTURACLI", "FECHA_FACTURA"},
                [i \in 1..n |-> [NRO_FACTURACLI |-> Str(<<" ", "a">>),
                                 FECHA_FACTURA  |-> FechaText]]) : n \in 0..MaxUpload}

\* e-billing tables told apart row by row
FacturacionElectronicaTables ==
    FacturacionElectronicaUploads
    \cup {Table({"IDENTIFICACION", "FACTURA", "USUARIO", "ESTADO"},
                [i \in 1..Len(es) |->
                    [FacturacionElectronicaRow(es[i], TRUE) EXCEPT !.IDENTIFICACION = RowId(i)]]) :
             es \in SeqsUpTo({Str(<<"A", "c", "t", "i", "v", "o">>), Str(<<"N", "O">>), NULL},
                             MaxUpload)}

InitProcesar ==
    /\ NotCalled
    /\ session_state = NoSession
    /\ FILES = NoFiles
    /\ colArg = NoColumn
    /\ tipoArg = "DOCUMENTO"
    /\ ref \in MasterRosters
    /\ \/ fn \in {"procesar_legalizaciones", "process_legalizaciones"}
          /\ tgt \in LegalizacionTables
       \/ fn \in {"procesar_rips", "process_rips"} /\ tgt \in RipsFiles
       \/ fn = "procesar_facturacion" /\ tgt \in FacturacionTables
       \/ fn = "process_facturacion_electronica" /\ tgt \in FacturacionElectronicaTables

\* a call has returned a value or raised
Returned(result) ==
    /\ res' = result
    /\ pc' = "done"
    /\ UNCHANGED <<fn, tgt, ref, colArg, tipoArg, mapa, res2, sessVars>>

CallProcesarLegalizaciones ==
    /\ pc = "ready" /\ fn = "procesar_legalizaciones"
    /\ Returned(procesar_legalizaciones(tgt, ref))

CallProcesarRips ==
    /\ pc = "ready" /\ fn = "procesar_rips"
    /\ Returned(procesar_rips(tgt, ref))

CallProcesarFacturacion ==
    /\ pc = "ready" /\ fn = "procesar_facturacion"
    /\ Returned(procesar_facturacion(tgt, ref))

\* the processors return tables only: they have no error field and do not raise
CallProcessLegalizaciones ==
    /\ pc = "ready" /\ fn = "process_legalizaciones"
    /\ Returned(LET p == process_legalizaciones(tgt)
                IN  [raised |-> FALSE, error |-> NoError,
                     df_ppl |-> p.df_ppl, df_convenios |-> p.df_convenios])

CallProcessRips ==
    /\ pc = "ready" /\ fn = "process_rips"
    /\ Returned([raised |-> FALSE, error |-> NoError, df_rips |-> process_rips(tgt)])

CallProcessFacturacionElectronica ==
    /\ pc = "ready" /\ fn = "process_facturacion_electronica"
    /\ Returned([raised |-> FALSE, error |-> NoError,
                 df_facturacion_electronica |-> process_facturacion_electronica(tgt)])

NextProcesar ==
    \/ CallProcesarLegalizaciones
    \/ CallProcesarRips
    \/ CallProcesarFacturacion
    \/ CallProcessLegalizaciones
    \/ CallProcessRips
    \/ CallProcessFacturacionElectronica

SpecProcesar == InitProcesar /\ [][NextProcesar]_vars


(***************************************************************************)
(* utils/file_helpers.py: detect_header_row                                 *)
(* A raw table is the file read with header=None: its columns are numbered  *)
(* and its rows are indexed from 0.                                         *)
(***************************************************************************)
\* str.startswith
StartsWith(s, prefix) ==
    Len(prefix) <= Len(s) /\ SubSeq(s, 1, Len(prefix)) = prefix

\* dtype of a row of iterrows(): the common dtype of the columns
RowDType(df_raw) ==
    IF \E c \in df_raw.cols : df_raw.dtype[c] = "object" THEN "object"
    ELSE IF \E c \in df_raw.cols : df_raw.dtype[c] = "float64" THEN "float64"
    ELSE "int64"

\* row.astype(str).str.strip().str.upper(), cell c of row i: in a row of
\* dtype object every cell keeps the type of its column
RowStr(df_raw, i, c) ==
    Upper(Strip(AsTypeStr(df_raw.rows[i][c],
                          IF RowDType(df_raw) = "object" THEN df_raw.dtype[c]
                          ELSE RowDType(df_raw))))

\* return None
NoRow == -1

\* a scan that keeps the last row that has the marker
detect_header_row_last(df_raw, column_marker) ==
    LET found == {i \in 1..Len(df_raw.rows) :
                    \E c \in df_raw.cols :
                        StartsWith(RowStr(df_raw, i, c), Upper(column_marker))}
    IN  IF found = {} THEN NoRow
        ELSE (CHOOSE i \in found : \A j \in found : j <= i) - 1

\* the loop over df_raw.iterrows() from the i-th row on
RECURSIVE DetectFrom(_, _, _)
DetectFrom(df_raw, column_marker, i) ==
    IF i > Len(df_raw.rows) THEN NoRow
    ELSE IF \E c \in df_raw.cols : StartsWith(RowStr(df_raw, i, c), Upper(column_marker))
    THEN i - 1
    ELSE DetectFrom(df_raw, column_marker, i + 1)

detect_header_row(df_raw, column_marker) == DetectFrom(df_raw, column_marker, 1)

MaxRaw == 3

RawCells == {Str(<<" ", "I", "d", "_", "x">>), Str(<<"x", " ", "i", "d">>), NULL, Num(<<"1">>)}
RawColumns == {"0", "1"}
RawTables ==
    {Table(RawColumns, rows) : rows \in SeqsUpTo([RawColumns -> RawCells], MaxRaw)}
Markers == {<<"i", "d">>, <<"I", "D", "_">>, <<"n", "a">>}

InitEncabezado ==
    /\ NotCalled
    /\ session_state = NoSession
    /\ FILES = NoFiles
    /\ fn = "detect_header_row"
    /\ tgt \in RawTables
    /\ ref = NoneT
    /\ colArg \in Markers
    /\ tipoArg = "DOCUMENTO"

CallDetectHeaderRow ==
    /\ pc = "ready" /\ fn = "detect_header_row"
    /\ Returned(detect_header_row(tgt, colArg))

NextEncabezado == CallDetectHeaderRow

SpecEncabezado == InitEncabezado /\ [][NextEncabezado]_vars


(***************************************************************************)
(* utils/file_helpers.py: one save_to_parquet over an earlier file, and the *)
(* load_from_parquet that follows.  colArg is the key of the file, ref the  *)
(* table of the last successful save, tgt the table to save.                *)
(***************************************************************************)
\* tables with an identifier column of text (a document with a leading zero,
\* one with a leading blank, a missing one) and a numeric column
DocumentTables ==
    {Table({"DOCUMENTO", "CANTIDAD"}, rows) :
        rows \in SeqsUpTo({[DOCUMENTO |-> d, CANTIDAD |-> n] :
                              d \in {Str(<<"0", "1">>), Str(<<" ", "a">>), NULL},
                              n \in {Num(<<"1">>), NULL}}, MaxUpload)}

SavedTables == {astype_str(df) : df \in {d \in RipsUploads : ~IsEmpty(d)}}

InitGuardar ==
    /\ NotCalled
    /\ session_state = NoSession
    /\ fn = "save_to_parquet"
    /\ tipoArg = "DOCUMENTO"
    /\ colArg \in DOMAIN NoFiles
    /\ ref \in {NoneT} \cup SavedTables
    /\ FILES = [NoFiles EXCEPT ![colArg] = ref]
    /\ tgt \in RipsUploads \cup DocumentTables

CallSaveToParquet ==
    /\ pc = "ready" /\ fn = "save_to_parquet"
    /\ \E fault \in Faults :
          LET r == save_to_parquet_result(tgt, FILES[colArg], fault)
          IN  /\ FILES' = [FILES EXCEPT ![colArg] = r.file]
              /\ res' = [ret |-> r.ret, fault |-> fault]
    /\ pc' = "saved"
    /\ UNCHANGED <<fn, tgt, ref, colArg, tipoArg, mapa, res2, session_state>>

CallLoadFromParquet ==
    /\ pc = "saved" /\ fn = "save_to_parquet"
    /\ res2' = load_from_parquet(FILES[colArg])
    /\ pc' = "done"
    /\ UNCHANGED <<fn, tgt, ref, colArg, tipoArg, mapa, res, sessVars>>

NextGuardar == CallSaveToParquet \/ CallLoadFromParquet

SpecGuardar == InitGuardar /\ [][NextGuardar]_vars


(***************************************************************************)
(* utils/file_helpers.py: normalize_column_names, and the normalization of  *)
(* the cells of a column, applied once and applied again to their result.   *)
(* tgt holds the column labels of a table and the cells of one column.      *)
(***************************************************************************)
\* .str.replace('\n', ' ')
ReplaceNewline(s) == [i \in 1..Len(s) |-> IF s[i] = "\n" THEN " " ELSE s[i]]

\* df.columns.astype(str).str.strip().str.replace('\n', ' ').str.upper() on
\* the sequence of column labels
normalize_column_names(columns) ==
    [i \in 1..Len(columns) |->
        Str(Upper(ReplaceNewline(Strip(AsTypeStr(columns[i], SeriesDType(columns))))))]

\* .astype(str).str.strip().str.upper() on the cells of a column
NormalizeCells(cells) ==
    [i \in 1..Len(cells) |-> NormCell(cells[i], SeriesDType(cells))]

MaxLabels == 2

Labels ==
    {Str(<<" ", "a", "\n">>), Str(<<"a", "\n", "b">>), Str(<<"\n", "a", " ", "b", "\t">>),
     Str(<<"A">>), Num(<<"1">>), NULL}
CellTexts ==
    {Str(<<" ", "a", " ">>), Str(<<"b", "\n">>), Str(<<"A">>), Num(<<"1">>), NULL}
NoNormalized == [columns |-> <<>>, cells |-> <<>>]

InitNormalizar ==
    /\ pc = "ready"
    /\ fn = "normalize_column_names"
    /\ session_state = NoSession
    /\ FILES = NoFiles
    /\ tgt \in [columns : SeqsUpTo(Labels, MaxLabels), cells : SeqsUpTo(CellTexts, MaxLabels)]
    /\ ref = NoneT
    /\ colArg = NoColumn
    /\ tipoArg = "DOCUMENTO"
    /\ mapa = <<>>
    /\ res = NoNormalized
    /\ res2 = NoNormalized

NormalizeOnce ==
    /\ pc = "ready" /\ fn = "normalize_column_names"
    /\ res' = [columns |-> normalize_column_names(tgt.columns),
               cells   |-> NormalizeCells(tgt.cells)]
    /\ pc' = "once"
    /\ UNCHANGED <<fn, tgt, ref, colArg, tipoArg, mapa, res2, sessVars>>

NormalizeAgain ==
    /\ pc = "once" /\ fn = "normalize_column_names"
    /\ res2' = [columns |-> normalize_column_names(res.columns),
                cells   |-> NormalizeCells(res.cells)]
    /\ pc' = "done"
    /\ UNCHANGED <<fn, tgt, ref, colArg, tipoArg, mapa, res, sessVars>>

NextNormalizar == NormalizeOnce \/ NormalizeAgain

SpecNormalizar == InitNormalizar /\ [][NextNormalizar]_vars


(***************************************************************************)
(* utils/date_helpers.py: filter_by_date_range; service/*.py: filtrar_rips, *)
(* filtrar_legalizaciones, filtrar_facturacion.  A call gives [ret, tgt]:   *)
(* the table returned and the table passed in as it is after the call.      *)
(***************************************************************************)
DigitSeq == <<"0", "1", "2", "3", "4", "5", "6", "7", "8", "9">>
DigitValue(d) == (CHOOSE i \in 1..10 : DigitSeq[i] = d) - 1

\* .dt.date of a datetime cell as the number yyyymmdd; a datetime made from a
\* small number lies on the first day of the epoch
DayNumber(s) ==
    IF IsDateText(s)
    THEN LET v(i) == DigitValue(s[i])
         IN  (((v(1) * 10 + v(2)) * 10 + v(3)) * 10 + v(4)) * 10000
               + (v(6) * 10 + v(7)) * 100 + v(9) * 10 + v(10)
    ELSE 19700101

\* df[date_column] = pd.to_datetime(...) assigns the column of the table
\* passed in; dropna and the mask make new tables
filter_by_date_range(df, date_column, start_date, end_date) ==
    IF date_column \notin df.cols THEN [ret |-> df, tgt |-> df]
    ELSE LET converted == parse_date_column(df, date_column)
             valid == DropNa(converted, {date_column})
         IN  [ret |-> SelectRows(valid,
                         {i \in 1..Len(valid.rows) :
                             /\ DayNumber(valid.rows[i][date_column][2]) >= DayNumber(start_date)
                             /\ DayNumber(valid.rows[i][date_column][2]) <= DayNumber(end_date)}),
              tgt |-> converted]

Todos == <<"T", "o", "d", "o", "s">>

\* usuarios_seleccionados and 'Todos' not in usuarios_seleccionados
\*    and len(usuarios_seleccionados) > 0
es_filtro_activo(usuarios_seleccionados) ==
    /\ ~usuarios_seleccionados.isNone
    /\ usuarios_seleccionados.values # <<>>
    /\ \A n \in 1..Len(usuarios_seleccionados.values) :
          usuarios_seleccionados.values[n] # Todos

\* df_filtered[df_filtered[usuario_col].isin(usuarios_seleccionados)]
FilterByUsuarios(df_filtered, usuarios_seleccionados) ==
    LET usuario_col == find_column_variant(df_filtered, COLUMN_NAMES_usuario)
        sel == usuarios_seleccionados.values
    IN  IF es_filtro_activo(usuarios_seleccionados) /\ usuario_col # NoColumn
        THEN SelectRows(df_filtered,
                 {i \in 1..Len(df_filtered.rows) :
                     \E n \in 1..Len(sel) : df_filtered.rows[i][usuario_col] = Str(sel[n])})
        ELSE df_filtered

filtrar_legalizaciones(df, start_date, end_date, usuarios_seleccionados) ==
    LET fecha_col == find_column_variant(df, COLUMN_NAMES_fecha)
        f == filter_by_date_range(df, fecha_col, start_date, end_date)
    IN  IF IsEmpty(df) \/ fecha_col = NoColumn THEN [ret |-> df, tgt |-> df]
        ELSE [ret |-> FilterByUsuarios(f.ret, usuarios_seleccionados), tgt |-> f.tgt]

filtrar_rips(df, start_date, end_date, usuarios_seleccionados) ==
    LET fecha_col == find_column_variant(df, COLUMN_NAMES_fecha)
        f == filter_by_date_range(df, fecha_col, start_date, end_date)
    IN  IF IsEmpty(df) \/ fecha_col = NoColumn THEN [ret |-> df, tgt |-> df]
        ELSE [ret |-> FilterByUsuarios(f.ret, usuarios_seleccionados), tgt |-> f.tgt]

filtrar_facturacion(df, start_date, end_date, usuarios_seleccionados) ==
    LET fecha_col == find_column_variant(df, COLUMN_NAMES_fecha)
        f == filter_by_date_range(df, fecha_col, start_date, end_date)
    IN  IF IsEmpty(df) \/ fecha_col = NoColumn THEN [ret |-> df, tgt |-> df]
        ELSE [ret |-> FilterByUsuarios(f.ret, usuarios_seleccionados), tgt |-> f.tgt]

\* the tables handed to the filters: the date column is text (a table loaded
\* from its file) or datetime (a table just processed); some tables have no
\* date column, some no user column
Day1 == <<"2", "0", "2", "4", "-", "0", "1", "-", "0", "5">>
Day2 == <<"2", "0", "2", "4", "-", "0", "1", "-", "0", "6">>

FilterSchemas == {{"USUARIO", "FECHA_REAL"}, {"USUARIO"}, {"FECHA_REAL"}}
FilterRows(S) ==
    {[c \in S |-> IF c = "USUARIO" THEN u ELSE d] :
        u \in {Str(<<"x">>), Str(<<"Y">>), NULL},
        d \in {Str(Day1), Str(Day2), Str(<<"x">>)}}
TextTables ==
    {NoneT} \cup UNION {{Table(S, rows) : rows \in SeqsUpTo(FilterRows(S), MaxRows)} :
                          S \in FilterSchemas}
FilterTables == TextTables \cup {parse_date_column(df, "FECHA_REAL") : df \in TextTables \ {NoneT}}

Selections ==
    {[isNone |-> TRUE, values |-> <<>>],
     [isNone |-> FALSE, values |-> <<>>],
     [isNone |-> FALSE, values |-> <<Todos>>],
     [isNone |-> FALSE, values |-> <<<<"x">>>>],
     [isNone |-> FALSE, values |-> <<<<"x">>, Todos>>]}

InitFiltros ==
    /\ NotCalled
    /\ session_state = NoSession
    /\ FILES = NoFiles
    /\ fn \in {"filtrar_legalizaciones", "filtrar_rips", "filtrar_facturacion"}
    /\ tgt \in FilterTables
    /\ ref \in [start_date : {Day1, Day2}, end_date : {Day1, Day2},
                usuarios_seleccionados : Selections]
    /\ colArg = NoColumn
    /\ tipoArg = "DOCUMENTO"

CallFiltrarLegalizaciones ==
    /\ pc = "ready" /\ fn = "filtrar_legalizaciones"
    /\ Returned(filtrar_legalizaciones(tgt, ref.start_date, ref.end_date,
                                       ref.usuarios_seleccionados))

CallFiltrarRips ==
    /\ pc = "ready" /\ fn = "filtrar_rips"
    /\ Returned(filtrar_rips(tgt, ref.start_date, ref.end_date,
                             ref.usuarios_seleccionados))

CallFiltrarFacturacion ==
    /\ pc = "ready" /\ fn = "filtrar_facturacion"
    /\ Returned(filtrar_facturacion(tgt, ref.start_date, ref.end_date,
                                    ref.usuarios_seleccionados))

NextFiltros ==
    \/ CallFiltrarLegalizaciones
    \/ CallFiltrarRips
    \/ CallFiltrarFacturacion

SpecFiltros == InitFiltros /\ [][NextFiltros]_vars


(***************************************************************************)
(* data/processors.py: aggregate_by_user; service/*.py: the productivity    *)
(* metrics.  groupby(...).size() drops the rows with a missing key and      *)
(* gives the groups in ascending order of their keys.                       *)
(***************************************************************************)
\* the characters of the texts in the order of their code points
CodePoints ==
    <<"\t", "\n", " ", "+", "-", ".", "0", "1", "2", "3", "4", "5", "6", "7", "8", "9",
      "A", "B", "C", "D", "E", "F", "G", "H", "I", "J", "K", "L", "M",
      "N", "O", "P", "Q", "R", "S", "T", "U", "V", "W", "X", "Y", "Z", "_",
      "a", "b", "c", "d", "e", "f", "g", "h", "i", "j", "k", "l", "m",
      "n", "o", "p", "q", "r", "s", "t", "u", "v", "w", "x", "y", "z", "Ó", "ó">>
CharCode(c) == CHOOSE i \in 1..Len(CodePoints) : CodePoints[i] = c

RECURSIVE TextLess(_, _)
TextLess(s, t) ==
    IF t = <<>> THEN FALSE
    ELSE IF s = <<>> THEN TRUE
    ELSE IF Head(s) = Head(t) THEN TextLess(Tail(s), Tail(t))
    ELSE CharCode(Head(s)) < CharCode(Head(t))

\* order of group keys (tuples of cells of one kind each), first key first
RECURSIVE KeyLess(_, _)
KeyLess(a, b) ==
    IF a = <<>> THEN FALSE
    ELSE IF a[1] = b[1] THEN KeyLess(Tail(a), Tail(b))
    ELSE TextLess(a[1][2], b[1][2])

RECURSIVE SortKeys(_)
SortKeys(K) ==
    IF K = {} THEN <<>>
    ELSE LET first == CHOOSE k \in K : \A other \in K \ {k} : KeyLess(k, other)
         IN  <<first>> \o SortKeys(K \ {first})

\* a count as an integer cell
CountCell(n) == Num(<<DigitSeq[n + 1]>>)
CountOf(c) == DigitValue(c[2][1])

\* a grouping that counts the rows with a missing key as a group of their own
GroupBySizeWithNulls(df, by) ==
    LET key(i) == [n \in 1..Len(by) |-> df.rows[i][by[n]]]
        keys == SortKeys({key(i) : i \in 1..Len(df.rows)})
        cols == {by[n] : n \in 1..Len(by)} \cup {"CANTIDAD"}
    IN  [isNone |-> FALSE,
         cols   |-> cols,
         dtype  |-> [c \in cols |-> IF c = "CANTIDAD" THEN "int64" ELSE df.dtype[c]],
         rows   |-> [g \in 1..Len(keys) |->
                       [c \in cols |->
                           IF c = "CANTIDAD"
                           THEN CountCell(Cardinality({i \in 1..Len(df.rows) : key(i) = keys[g]}))
                           ELSE keys[g][CHOOSE n \in 1..Len(by) : by[n] = c]]]]

\* df.groupby(by).size().reset_index(name='CANTIDAD')
GroupBySize(df, by) ==
    LET key(i) == [n \in 1..Len(by) |-> df.rows[i][by[n]]]
        valid == {i \in 1..Len(df.rows) : \A n \in 1..Len(by) : ~IsNull(key(i)[n])}
        keys == SortKeys({key(i) : i \in valid})
        cols == {by[n] : n \in 1..Len(by)} \cup {"CANTIDAD"}
    IN  [isNone |-> FALSE,
         cols   |-> cols,
         dtype  |-> [c \in cols |-> IF c = "CANTIDAD" THEN "int64" ELSE df.dtype[c]],
         rows   |-> [g \in 1..Len(keys) |->
                       [c \in cols |->
                           IF c = "CANTIDAD"
                           THEN CountCell(Cardinality({i \in valid : key(i) = keys[g]}))
                           ELSE keys[g][CHOOSE n \in 1..Len(by) : by[n] = c]]]]

\* aggregate_by_user: [raised, ret, tgt].  With group_by_date the table
\* passed in gets the column FECHA, df[date_column].dt.date, and the .dt
\* accessor raises on a column that is not datetime.
aggregate_by_user(df, usuario_column, date_column, group_by_date) ==
    IF IsEmpty(df) \/ usuario_column \notin df.cols
    THEN [raised |-> FALSE, ret |-> NoneT, tgt |-> df]
    ELSE IF group_by_date /\ date_column # NoColumn /\ date_column \in df.cols
    THEN IF df.dtype[date_column] # "datetime64"
         THEN [raised |-> TRUE, ret |-> NoneT, tgt |-> df]
         ELSE LET dated == AssignColumn(df, "FECHA",
                               [i \in 1..Len(df.rows) |-> df.rows[i][date_column]],
                               "object")
              IN  [raised |-> FALSE,
                   ret |-> GroupBySize(dated, <<usuario_column, "FECHA">>),
                   tgt |-> dated]
    ELSE [raised |-> FALSE, ret |-> GroupBySize(df, <<usuario_column>>), tgt |-> df]

MaxAgg == 3

AgentDayRows(S) ==
    {[c \in S |-> IF c = "USUARIO" THEN u ELSE d] :
        u \in {Str(<<"A">>), Str(<<"b">>), NULL},
        d \in {Str(Day1), Str(Day2), Str(<<"x">>)}}
\* tables with an agent column and a date column of text or, parsed, of
\* datetime, and tables with one of the two columns only
AggregateTables ==
    LET text == UNION {{Table(S, rows) : rows \in SeqsUpTo(AgentDayRows(S), MaxAgg)} :
                          S \in FilterSchemas}
    IN  {NoneT} \cup text \cup {parse_date_column(df, "FECHA_REAL") : df \in text}

\* df.sort_values(col, ascending=False): rows of equal count keep their order
RECURSIVE SortDescending(_, _)
SortDescending(rows, col) ==
    IF rows = <<>> THEN <<>>
    ELSE LET top == CHOOSE i \in 1..Len(rows) :
                       /\ \A j \in 1..Len(rows) : CountOf(rows[j][col]) <= CountOf(rows[i][col])
                       /\ \A j \in 1..(i - 1) : CountOf(rows[j][col]) < CountOf(rows[i][col])
         IN  <<rows[top]>> \o SortDescending(Pick(rows, (1..Len(rows)) \ {top}, 1), col)
sort_values_descending(df, col) == [df EXCEPT !.rows = SortDescending(df.rows, col)]

\* pd.to_datetime(series) without errors='coerce' raises on a text that is
\* no date
ToDatetimeRaises(df, col) ==
    \E i \in 1..Len(df.rows) : IsStr(df.rows[i][col]) /\ ~IsDateText(df.rows[i][col][2])

\* the three calcular_productividad_* functions have the same body:
\* [raised, total, por_usuario, por_fecha, tgt]; promedio_diario, the mean of
\* the counts of por_fecha, is not modelled.  The table passed in gets the
\* column FECHA when it has a date column.
CalcularProductividad(df) ==
    IF IsEmpty(df)
    THEN [raised |-> FALSE, total |-> 0, por_usuario |-> NoneT, por_fecha |-> NoneT,
          tgt |-> df]
    ELSE LET usuario_col == find_column_variant(df, COLUMN_NAMES_usuario)
             fecha_col   == find_column_variant(df, COLUMN_NAMES_fecha)
             por_usuario == IF usuario_col # NoColumn
                            THEN aggregate_by_user(df, usuario_col, fecha_col, FALSE).ret
                            ELSE NoneT
             dated       == AssignColumn(df, "FECHA",
                                [i \in 1..Len(df.rows) |-> ToDatetime(df.rows[i][fecha_col])],
                                "object")
         IN  IF fecha_col = NoColumn
             THEN [raised |-> FALSE, total |-> Len(df.rows), por_usuario |-> por_usuario,
                   por_fecha |-> NoneT, tgt |-> df]
             ELSE IF ToDatetimeRaises(df, fecha_col)
             THEN [raised |-> TRUE, total |-> 0, por_usuario |-> NoneT,
                   por_fecha |-> NoneT, tgt |-> df]
             ELSE [raised |-> FALSE, total |-> Len(df.rows), por_usuario |-> por_usuario,
                   por_fecha |-> GroupBySize(dated, <<"FECHA">>), tgt |-> dated]

calcular_productividad_legalizaciones(df) == CalcularProductividad(df)
calcular_productividad_rips(df) == CalcularProductividad(df)
calcular_productividad_facturacion(df) == CalcularProductividad(df)

NoUsuarios(error) ==
    [raised |-> FALSE, df_with_usuario |-> NoneT, df_por_usuario |-> NoneT,
     error |-> error]

obtener_facturacion_con_usuario(df_facturacion, df_fact_elec, df_facturadores) ==
    IF IsEmpty(df_facturacion) THEN NoUsuarios(<<"No hay datos de facturación">>)
    ELSE IF IsEmpty(df_fact_elec)
    THEN NoUsuarios(<<"No hay datos de facturación electrónica">>)
    ELSE LET df_with_usuario ==
                 merge_facturacion_with_electronica(df_facturacion, df_fact_elec).ret
             usuario_col == find_column_variant(df_with_usuario, COLUMN_NAMES_usuario)
             valid == SelectRows(df_with_usuario,
                          {i \in 1..Len(df_with_usuario.rows) :
                              ~IsNull(df_with_usuario.rows[i][usuario_col])})
             grouped == GroupBySize(valid, <<usuario_col>>)
             merged == IF IsEmpty(df_facturadores)
                       THEN [raised |-> FALSE, df |-> grouped]
                       ELSE merge_with_facturadores(grouped, df_facturadores, usuario_col)
         IN  IF usuario_col = NoColumn
             THEN NoUsuarios(<<"No se pudo determinar el usuario">>)
             ELSE IF IsEmpty(valid)
             THEN NoUsuarios(<<"No se encontraron coincidencias">>)
             ELSE IF merged.raised
             THEN [NoUsuarios(NoError) EXCEPT !.raised = TRUE]
             ELSE [raised |-> FALSE, df_with_usuario |-> valid,
                   df_por_usuario |-> sort_values_descending(merged.df, "CANTIDAD"),
                   error |-> NoError]

ProductivityCalls ==
    {"calcular_productividad_legalizaciones", "calcular_productividad_rips",
     "calcular_productividad_facturacion"}

\* invoices of the billing table and the agents the e-billing table gives them
InvoiceTables ==
    {NoneT} \cup
    {Table({"NRO_FACTURACLI"}, rows) :
        rows \in SeqsUpTo({[c \in {"NRO_FACTURACLI"} |-> v] :
                              v \in {Str(<<"a">>), Str(<<"b">>), NULL}}, MaxAgg)}
InvoiceAgents ==
    {NoneT} \cup
    {Table({"FACTURA", "USUARIO", "ESTADO"},
           [n \in 1..2 |-> [c \in {"FACTURA", "USUARIO", "ESTADO"} |->
               CASE c = "FACTURA" -> IF n = 1 THEN Str(<<"a">>) ELSE Str(<<"b">>)
                 [] c = "USUARIO" -> us[n]
                 [] OTHER -> Str(ACTIVO)]]) :
        us \in [1..2 -> {Str(<<"x">>), Str(<<"Y">>)}]}
\* rosters keyed by the agent, an agent possibly listed twice
AgentRosters ==
    {NoneT} \cup
    {Table({"USUARIO", "NOMBRE"}, rows) :
        rows \in SeqsUpTo({[c \in {"USUARIO", "NOMBRE"} |->
                              IF c = "USUARIO" THEN u ELSE Str(<<"N">>)] :
                              u \in {Str(<<"X">>), Str(<<"Y">>)}}, MaxRef)}

InitAgregar ==
    /\ NotCalled
    /\ session_state = NoSession
    /\ FILES = NoFiles
    /\ tipoArg = "DOCUMENTO"
    /\ \/ /\ fn = "aggregate_by_user"
          /\ tgt \in AggregateTables
          /\ colArg \in {"USUARIO", "USUARIO FACTURÓ"}
          /\ ref \in [date_column : {NoColumn, "FECHA_REAL"}, group_by_date : BOOLEAN]
       \/ /\ fn \in ProductivityCalls
          /\ tgt \in AggregateTables
          /\ colArg = NoColumn
          /\ ref = NoneT
       \/ /\ fn = "obtener_facturacion_con_usuario"
          /\ tgt \in InvoiceTables
          /\ colArg = NoColumn
          /\ ref \in [df_fact_elec : InvoiceAgents, df_facturadores : AgentRosters]

CallAggregateByUser ==
    /\ pc = "ready" /\ fn = "aggregate_by_user"
    /\ Returned(aggregate_by_user(tgt, colArg, ref.date_column, ref.group_by_date))

CallCalcularProductividadLegalizaciones ==
    /\ pc = "ready" /\ fn = "calcular_productividad_legalizaciones"
    /\ Returned(calcular_productividad_legalizaciones(tgt))

CallCalcularProductividadRips ==
    /\ pc = "ready" /\ fn = "calcular_productividad_rips"
    /\ Returned(calcular_productividad_rips(tgt))

CallCalcularProductividadFacturacion ==
    /\ pc = "ready" /\ fn = "calcular_productividad_facturacion"
    /\ Returned(calcular_productividad_facturacion(tgt))

CallObtenerFacturacionConUsuario ==
    /\ pc = "ready" /\ fn = "obtener_facturacion_con_usuario"
    /\ Returned(obtener_facturacion_con_usuario(tgt, ref.df_fact_elec, ref.df_facturadores))

NextAgregar ==
    \/ CallAggregateByUser
    \/ CallCalcularProductividadLegalizaciones
    \/ CallCalcularProductividadRips
    \/ CallCalcularProductividadFacturacion
    \/ CallObtenerFacturacionConUsuario

SpecAgregar == InitAgregar /\ [][NextAgregar]_vars


(***************************************************************************)
(* The Document-to-Name pass applied to its own result, as                  *)
(* init_session_state (app.py 38-44) and 'Recruzar RIPS' (file_upload.py    *)
(* 365-408) apply it to the table an earlier application produced           *)
(***************************************************************************)
\* rosters in which a name may be the document of another row
RecrossRosters ==
    {NoneT} \cup
    {Table({"DOCUMENTO", "NOMBRE"}, rows) :
        rows \in SeqsUpTo({[c \in {"DOCUMENTO", "NOMBRE"} |-> IF c = "DOCUMENTO" THEN d ELSE n] :
                              d \in {Str(<<"1">>), Str(<<"2">>)},
                              n \in {Str(<<"2">>), Str(<<"a", " ">>), NULL}}, MaxRef)}
RecrossTables ==
    {NoneT} \cup
    {Table({"USUARIO FACTURÓ"}, rows) :
        rows \in SeqsUpTo({[c \in {"USUARIO FACTURÓ"} |-> v] :
                              v \in {Str(<<"1">>), Str(<<" ", "2">>), Str(<<"b">>), NULL}},
                          MaxRows)}

InitRecruzar ==
    /\ NotCalled
    /\ session_state = NoSession
    /\ FILES = NoFiles
    /\ fn = "cruzar_documento_a_nombre"
    /\ tgt \in RecrossTables
    /\ ref \in RecrossRosters
    /\ colArg = NoColumn
    /\ tipoArg = "DOCUMENTO"

CruzarOnce ==
    /\ pc = "ready"
    /\ res' = cruzar_documento_a_nombre(tgt, ref)
    /\ pc' = "once"
    /\ UNCHANGED <<fn, tgt, ref, colArg, tipoArg, mapa, res2, sessVars>>

CruzarAgain ==
    /\ pc = "once"
    /\ res2' = cruzar_documento_a_nombre(res.ret, ref).ret
    /\ pc' = "done"
    /\ UNCHANGED <<fn, tgt, ref, colArg, tipoArg, mapa, res, sessVars>>

NextRecruzar == CruzarOnce \/ CruzarAgain

SpecRecruzar == InitRecruzar /\ [][NextRecruzar]_vars


(***************************************************************************)
(* DashboardProductividadLegalizacionFacturacion.py: the single-file        *)
(* program, its session start (300-320) and its legalization block          *)
(* (395-459)                                                                 *)
(***************************************************************************)
\* save_local: nothing is written for None or an empty table
save_local(df, file) == IF IsEmpty(df) THEN file ELSE astype_str(df)
\* load_local: None when the file does not exist
load_local(file) == file

Activo == <<"A", "c", "t", "i", "v", "o">>
estados_validos_legalizaciones == {Activo, ACTIVO}

\* the table read from the uploaded file, header row found
BlockUploads ==
    {Table({"ID_LEGALIZACION", "ESTADO", "CONVENIO"},
           [i \in 1..Len(es) |->
               [ID_LEGALIZACION |-> RowId(i), ESTADO |-> es[i][1], CONVENIO |-> es[i][2]]]) :
        es \in SeqsUpTo({Str(<<"a", "c", "t", "i", "v", "o", " ">>), Str(ACTIVA)}
                            \X {Str(CONVENIO_PPL), Str(<<"x">>), NULL}, MaxUpload)}
    \cup {Table({"ID_LEGALIZACION", "CONVENIO"},
                <<[ID_LEGALIZACION |-> RowId(1), CONVENIO |-> c]>>) :
             c \in {Str(CONVENIO_PPL), Str(<<"x">>)}}
    \cup {Table({"ID_LEGALIZACION", "ESTADO"},
                <<[ID_LEGALIZACION |-> RowId(1), ESTADO |-> Str(ACTIVO)]>>)}

\* a new session of the single-file program over the files of earlier runs;
\* there is no roster file, so the stored RIPS are not crossed
InitBloque ==
    /\ Idle
    /\ \E rips \in {NoneT} \cup SavedTables, ppl \in {NoneT, astype_str(CHOOSE d \in BlockUploads : Len(d.rows) = 1)} :
          /\ FILES = [NoFiles EXCEPT !.RIPS = rips, !.PPL = ppl]
          /\ session_state = [NoSession EXCEPT !.df_ppl = load_local(ppl),
                                               !.df_rips = load_local(rips),
                                               !.initialized = TRUE]

\* the button 'Procesar y Guardar Legalizaciones': st.stop() ends the run
\* when no row has a valid state or the column CONVENIO is missing
ProcesarGuardarLegalizaciones ==
    pc = "ready" /\ \E df_temp \in BlockUploads :
        LET has_estado == "ESTADO" \in df_temp.cols \/ "Estado" \in df_temp.cols
            col_estado == IF "ESTADO" \in df_temp.cols THEN "ESTADO" ELSE "Estado"
            filtered == IF has_estado
                        THEN FilterByEstado(df_temp, col_estado, estados_validos_legalizaciones)
                        ELSE df_temp
            df_ppl == SelectRows(filtered, {i \in 1..Len(filtered.rows) :
                          filtered.rows[i]["CONVENIO"] = Str(CONVENIO_PPL)})
            df_convenios == SelectRows(filtered, {i \in 1..Len(filtered.rows) :
                          filtered.rows[i]["CONVENIO"] # Str(CONVENIO_PPL)})
            df_rips == Table({}, <<>>)
            stopped == \/ has_estado /\ Len(filtered.rows) = 0
                       \/ "CONVENIO" \notin filtered.cols
        IN  /\ fn' = "Procesar y Guardar Legalizaciones"
            /\ tgt' = df_temp
            /\ pc' = IF stopped THEN "stopped" ELSE "stored"
            /\ UNCHANGED <<ref, colArg, tipoArg, res, mapa, res2>>
            /\ IF stopped THEN UNCHANGED sessVars
               ELSE /\ session_state' =
                          [session_state EXCEPT
                              !.df_ppl = IF IsEmpty(df_ppl) THEN NoneT ELSE df_ppl,
                              !.df_convenios = IF IsEmpty(df_convenios) THEN NoneT
                                               ELSE df_convenios,
                              !.df_rips = IF IsEmpty(df_rips) THEN NoneT ELSE df_rips]
                    /\ FILES' = [FILES EXCEPT !.PPL = save_local(df_ppl, @),
                                              !.Convenios = save_local(df_convenios, @),
                                              !.RIPS = save_local(df_rips, @)]

NextBloque == ProcesarGuardarLegalizaciones

SpecBloque == InitBloque /\ [][NextBloque]_vars


(***************************************************************************)
(* The join with the roster: merge_with_facturadores (data/processors.py    *)
(* 125-152) on its own and inside procesar_rips (service/rips_service.py)   *)
(***************************************************************************)
JoinTables ==
    {NoneT} \cup
    {Table({"USUARIO"}, rows) :
        rows \in SeqsUpTo({[c \in {"USUARIO"} |-> v] :
                              v \in {Str(<<"X">>), Str(<<"Y">>), NULL}}, MaxRows)}
\* rosters that list an agent once, twice or not at all, and a roster
\* without the agent column
JoinRosters ==
    AgentRosters \cup
    {Table({"USUARIO", "NOMBRE"},
           <<[USUARIO |-> Str(<<" ", "a">>), NOMBRE |-> Str(<<"N">>)],
             [USUARIO |-> Str(<<" ", "a">>), NOMBRE |-> Str(<<"M">>)]>>),
     Table({"DOCUMENTO", "NOMBRE"},
           <<[DOCUMENTO |-> Str(<<"1">>), NOMBRE |-> Str(<<"N">>)]>>)}

InitCruce ==
    /\ NotCalled
    /\ session_state = NoSession
    /\ FILES = NoFiles
    /\ colArg = "USUARIO"
    /\ tipoArg = "DOCUMENTO"
    /\ ref \in JoinRosters
    /\ \/ fn = "merge_with_facturadores" /\ tgt \in JoinTables
       \/ fn = "procesar_rips" /\ tgt \in RipsUploads

CallMergeWithFacturadores ==
    /\ pc = "ready" /\ fn = "merge_with_facturadores"
    /\ Returned(merge_with_facturadores(tgt, ref, colArg))

CallProcesarRipsConFacturadores ==
    /\ pc = "ready" /\ fn = "procesar_rips"
    /\ Returned(procesar_rips(tgt, ref))

NextCruce == CallMergeWithFacturadores \/ CallProcesarRipsConFacturadores

SpecCruce == InitCruce /\ [][NextCruce]_vars


(***************************************************************************)
(* data/loaders.py: load_facturadores_master and its two sources, and the   *)
(* reload button of render_facturadores_reload over them                    *)
(***************************************************************************)
\* a source is absent, fails on reading, or holds a table (its column names
\* given as strip and upper-case leave them)
SourceRosters ==
    {Table({"DOCUMENTO", "NOMBRE", "USUARIO"}, rows) :
        rows \in {<<>>,
                  <<[DOCUMENTO |-> Str(<<"1">>), NOMBRE |-> Str(<<"N">>), USUARIO |-> Str(<<"X">>)]>>,
                  <<[DOCUMENTO |-> Str(<<"2">>), NOMBRE |-> Str(<<"M">>), USUARIO |-> Str(<<"Y">>)]>>,
                  <<[DOCUMENTO |-> Str(<<"1">>), NOMBRE |-> Str(<<"N">>), USUARIO |-> Str(<<"X">>)],
                    [DOCUMENTO |-> Str(<<"2">>), NOMBRE |-> Str(<<"M">>), USUARIO |-> Str(<<"Y">>)]>>}}
RosterSources ==
    {[status |-> s, df |-> NoneT] : s \in {"absent", "raises"}}
    \cup {[status |-> "ok", df |-> d] : d \in SourceRosters}

\* the try block returns the table read; a missing key and an exception end
\* in return None
load_facturadores_from_secrets(secrets) ==
    IF secrets.status = "ok" THEN secrets.df ELSE NoneT
load_facturadores_from_file(file) ==
    IF file.status = "ok" THEN file.df ELSE NoneT

\* [ret, file_read]: file_read tells whether the local file was consulted
load_facturadores_master(secrets, file) ==
    LET s == load_facturadores_from_secrets(secrets)
    IN  IF ~s.isNone THEN [ret |-> s, file_read |-> FALSE]
        ELSE [ret |-> load_facturadores_from_file(file), file_read |-> TRUE]

\* a session that holds a roster or none, over the roster file of an
\* earlier session, if any
InitRecarga ==
    /\ Idle
    /\ \E current \in {NoneT} \cup {d \in SourceRosters : d.rows # <<>>},
          stored \in {NoneT} \cup {d \in SourceRosters : d.rows # <<>>} :
          /\ session_state = [NoSession EXCEPT !.df_facturadores = current,
                                               !.initialized = TRUE]
          /\ FILES = [NoFiles EXCEPT !.Facturadores = save_to_parquet(stored, NoneT)]

\* the button over the two sources as they are when it is pressed
RecargarFacturadoresObserved ==
    \E secrets \in RosterSources, file \in RosterSources :
        LET loaded == load_facturadores_master(secrets, file)
        IN  /\ RecargarStep(loaded.ret)
            /\ fn' = "render_facturadores_reload"
            /\ pc' = IF loaded.ret.isNone THEN "failed" ELSE "reloaded"
            /\ res' = [secrets |-> secrets, file |-> file, file_read |-> loaded.file_read]
            /\ tgt' = loaded.ret
            /\ UNCHANGED <<ref, colArg, tipoArg, mapa, res2>>

NextRecarga == RecargarFacturadoresObserved

SpecRecarga == InitRecarga /\ [][NextRecarga]_vars


(***************************************************************************)
(* Vocabulary of the properties                                             *)
(***************************************************************************)
\* the agent column of the target of Pass B
AgentColumn == find_column_variant(tgt, COLUMN_NAMES_usuario)

\* Pass A went through to the assignment of USUARIO
RanMerge ==
    /\ fn = "A" /\ pc # "ready"
    /\ ~IsEmpty(tgt) /\ ~IsEmpty(ref)
    /\ {"FACTURA", "USUARIO"} \subseteq ref.cols
    /\ "NRO_FACTURACLI" \in tgt.cols

\* Pass B went through to the lookup
RanCruzar ==
    /\ fn = "B" /\ pc # "ready"
    /\ ~IsEmpty(tgt) /\ ~IsEmpty(ref)
    /\ {"DOCUMENTO", "NOMBRE"} \subseteq ref.cols
    /\ AgentColumn # NoColumn

\* Pass C went through to the membership test
RanFiltrar ==
    /\ fn = "C" /\ pc # "ready"
    /\ ~IsEmpty(tgt) /\ ~IsEmpty(ref)
    /\ colArg \in tgt.cols
    /\ tipoArg \in ref.cols

IsKey(m, k) == \E j \in 1..Len(m) : m[j].k = k
ValueOf(m, k) == m[CHOOSE j \in 1..Len(m) : m[j].k = k].v

BuiltMap ==
    \/ RanCruzar
    \/ /\ fn = "A" /\ pc # "ready"
       /\ ~IsEmpty(tgt) /\ ~IsEmpty(ref)
       /\ {"FACTURA", "USUARIO"} \subseteq ref.cols

KeyColumn == IF fn = "A" THEN "FACTURA" ELSE "DOCUMENTO"
ValueColumn == IF fn = "A" THEN "USUARIO" ELSE "NOMBRE"

\* the text a pass compares for a cell of column c of table t: Pass A trims and
\* uppercases the cells of its text columns, Pass B those of the columns it reads
ComparedCell(t, c, cell) ==
    IF fn = "A" /\ t.dtype[c] # "object" THEN cell ELSE NormCell(cell, t.dtype[c])

\* the reference rows a pass draws its map from: the roster rows for Pass B,
\* the e-billing rows in state ACTIVO for Pass A
Eligible ==
    {j \in 1..Len(ref.rows) :
        (fn = "A" /\ "ESTADO" \in ref.cols)
            => ComparedCell(ref, "ESTADO", ref.rows[j]["ESTADO"]) = Str(ACTIVO)}

\* the eligible rows whose key and value are both present in the input
Complete ==
    {j \in Eligible : /\ ~IsNull(ref.rows[j][KeyColumn])
                      /\ ~IsNull(ref.rows[j][ValueColumn])}

RefKey(j) == ComparedCell(ref, KeyColumn, ref.rows[j][KeyColumn])
RefValue(j) == ComparedCell(ref, ValueColumn, ref.rows[j][ValueColumn])

\* C2 as stated: the reference map of Pass A and of Pass B holds exactly one
\* value per key, the value of the first reference row, in input order, with
\* a non-null key and a non-null value; a row with a null key or a null value
\* contributes no entry.
C2_Original ==
    BuiltMap =>
        /\ \A i, j \in 1..Len(mapa) : mapa[i].k = mapa[j].k => i = j
        /\ {mapa[i] : i \in 1..Len(mapa)} =
              {[k |-> RefKey(j), v |-> RefValue(j)] :
                  j \in {n \in Complete :
                            \A m \in Complete : m < n => RefKey(m) # RefKey(n)}}

\* C3 as stated, for an e-billing table that has its ESTADO column: every
\* agent value Pass A assigns to a billing row comes from an e-billing row in
\* state ACTIVO whose FACTURA is the row's NRO_FACTURACLI after trim and
\* uppercase, and a billing row whose invoice number is in no such row ends
\* with a null USUARIO.
C3_Original ==
    (RanMerge /\ "ESTADO" \in ref.cols) =>
        \A i \in 1..Len(tgt.rows) :
            LET n == tgt.rows[i]["NRO_FACTURACLI"]
                o == res.ret.rows[i]["USUARIO"]
                sources == {j \in Eligible :
                               /\ ~IsNull(n)
                               /\ ~IsNull(ref.rows[j]["FACTURA"])
                               /\ RefKey(j) = ComparedCell(tgt, "NRO_FACTURACLI", n)}
            IN  /\ ~IsNull(o) => \E j \in sources : o = RefValue(j)
                /\ sources = {} => IsNull(o)

\* a precondition of the pass under call does not hold
PreconditionFails ==
    \/ IsEmpty(tgt)
    \/ IsEmpty(ref)
    \/ /\ fn = "A"
       /\ ~({"FACTURA", "USUARIO"} \subseteq ref.cols /\ "NRO_FACTURACLI" \in tgt.cols)
    \/ /\ fn = "B"
       /\ ~({"DOCUMENTO", "NOMBRE"} \subseteq ref.cols /\ AgentColumn # NoColumn)
    \/ /\ fn = "C"
       /\ ~(colArg \in tgt.cols /\ tipoArg \in ref.cols)

\* C4 as stated: when the reference table or the target table is null or
\* empty, or a required column is missing, the pass returns a table equal,
\* cell for cell, to the target table it was given.
C4_Original == (pc # "ready" /\ PreconditionFails) => res.ret = tgt

\* C5 as stated: Pass A and Pass B leave both tables passed to them as they
\* were before the call.
C5_Original == (pc # "ready" /\ fn \in {"A", "B"}) => (res.tgt = tgt /\ res.ref = ref)


\* the target rows whose user text is the text of a non-null roster value
InRoster ==
    {i \in 1..Len(tgt.rows) :
        \E j \in 1..Len(ref.rows) :
            /\ ~IsNull(ref.rows[j][tipoArg])
            /\ NormCell(ref.rows[j][tipoArg], ref.dtype[tipoArg])
                  = NormCell(tgt.rows[i][colArg], tgt.dtype[colArg])}

\* C6: the membership filter returns exactly the input rows whose user value,
\* trimmed and uppercased, is the trimmed, uppercased form of a non-null
\* value of the roster's comparison column, in input order, and the output
\* has the columns of the input.
C6_Membership ==
    RanFiltrar =>
        /\ res.ret.cols = tgt.cols
        /\ Len(res.ret.rows) = Cardinality(InRoster)
        /\ \A k \in 1..Len(res.ret.rows) :
              \E i \in InRoster :
                  /\ res.ret.rows[k] = tgt.rows[i]
                  /\ k = Cardinality({m \in InRoster : m <= i})

\* a call of the filter that keeps a row and removes another
C6_Witness ==
    /\ RanFiltrar
    /\ InRoster # {}
    /\ InRoster # 1..Len(tgt.rows)
    /\ Len(res.ret.rows) < Len(tgt.rows)

IdColumn == IF fn = "A" THEN "NRO_LEGALIACION" ELSE "CÓDIGO"

\* C7: Pass A and Pass B return the rows of the target table, as many and in
\* the same order: row i of the result is row i of the target.
C7_LeftOuter ==
    (pc # "ready" /\ fn \in {"A", "B"}) =>
        /\ res.ret.isNone = tgt.isNone
        /\ Len(res.ret.rows) = Len(tgt.rows)
        /\ \A i \in 1..Len(tgt.rows) :
              res.ret.rows[i][IdColumn] = tgt.rows[i][IdColumn]

\* a call of Pass A in which a row finds its invoice and another does not
C7_Witness ==
    /\ RanMerge
    /\ Len(res.ret.rows) = 2
    /\ \E i, j \in 1..Len(res.ret.rows) :
          /\ ~IsNull(res.ret.rows[i]["USUARIO"])
          /\ IsNull(res.ret.rows[j]["USUARIO"])

\* C8 as stated: the result of Pass A and of Pass B is the same for every
\* order of the rows of the reference table.
C8_Original == pc = "again" => res2 = res.ret

\* no two eligible reference rows give one key two values
OneValuePerKey ==
    BuiltMap => \A m, n \in Eligible : RefKey(m) = RefKey(n) => RefValue(m) = RefValue(n)

\* C8 amended: the result of Pass A and of Pass B is the same for every order
\* of the rows of the reference table, provided the reference rows the map is
\* drawn from (the roster rows, the e-billing rows in state ACTIVO) never give
\* one key two different values.
C8_OrderIndependent == (pc = "again" /\ OneValuePerKey) => res2 = res.ret

\* a second run over a reordered reference with two keys, one of them hit
C8_Witness ==
    /\ pc = "again"
    /\ RanMerge \/ RanCruzar
    /\ OneValuePerKey
    /\ \E m, n \in Eligible : RefKey(m) # RefKey(n)
    /\ \E i \in 1..Len(tgt.rows) :
          res.ret.rows[i][IF fn = "A" THEN "USUARIO" ELSE AgentColumn]
              \in {RefValue(m) : m \in Eligible}

\* the positions, in COLUMN_NAMES["usuario"], of the names the target has
Present == {n \in 1..Len(COLUMN_NAMES_usuario) : COLUMN_NAMES_usuario[n] \in tgt.cols}
FirstPresent == COLUMN_NAMES_usuario[CHOOSE n \in Present : \A m \in Present : n <= m]

\* C9: Pass B uses the first name of COLUMN_NAMES["usuario"], in list order,
\* that is a column of the table: its values are the looked-up ones, every
\* other column keeps its values, and when the table has none of the names
\* it is returned as it is.
C9_Synonym ==
    (fn = "B" /\ pc # "ready") =>
        IF Present = {} \/ IsEmpty(tgt) \/ IsEmpty(ref)
        THEN res.ret = tgt
        ELSE /\ res.ret.cols = tgt.cols
             /\ Len(res.ret.rows) = Len(tgt.rows)
             /\ \A i \in 1..Len(tgt.rows) : \A c \in tgt.cols :
                   res.ret.rows[i][c] =
                      IF c = FirstPresent
                      THEN LET k == NormCell(tgt.rows[i][c], tgt.dtype[c])
                           IN  IF IsKey(mapa, k) THEN ValueOf(mapa, k) ELSE k
                      ELSE tgt.rows[i][c]

\* a table with two of the names: the first is rewritten, the second is not,
\* although it holds a document of the roster
C9_Witness ==
    /\ fn = "B" /\ pc # "ready"
    /\ ~IsEmpty(ref)
    /\ Cardinality(Present) >= 2
    /\ "USUARIO" \notin tgt.cols
    /\ \E i \in 1..Len(tgt.rows) :
          /\ res.ret.rows[i]["USUARIO FACTURÓ"] # tgt.rows[i]["USUARIO FACTURÓ"]
          /\ IsKey(mapa, NormCell(tgt.rows[i]["USUARIO_FACTURO"], "object"))
          /\ res.ret.rows[i]["USUARIO_FACTURO"] = tgt.rows[i]["USUARIO_FACTURO"]


\* every row of the table has a state of the set
AllRowsIn(t, validos) ==
    \A i \in 1..Len(t.rows) :
        "ESTADO" \in t.cols /\ t.rows[i]["ESTADO"] \in {Str(v) : v \in validos}

LegalizacionCalls == {"procesar_legalizaciones", "process_legalizaciones"}
RipsCalls == {"procesar_rips", "process_rips"}

\* the call under observation has returned or raised
Called(names) == fn \in names /\ pc = "done"

\* the rows of the tables the call returned
ReturnedRows ==
    IF fn \in LegalizacionCalls THEN Count(res.df_ppl) + Count(res.df_convenios)
    ELSE IF fn \in RipsCalls THEN Count(res.df_rips)
    ELSE IF fn = "procesar_facturacion" THEN Count(res.df_facturacion)
    ELSE Count(res.df_facturacion_electronica)

\* the table lacks the state column and nothing else the upload path asks for
LacksEstadoOnly ==
    /\ ~IsEmpty(tgt)
    /\ "ESTADO" \notin tgt.cols
    /\ find_column_variant(tgt, COLUMN_NAMES_usuario) # NoColumn
    /\ find_column_variant(tgt, COLUMN_NAMES_fecha) # NoColumn
    /\ fn \in LegalizacionCalls => "CONVENIO" \in tgt.cols

\* C11 as stated: when an uploaded RIPS or legalization table has no ESTADO
\* column, the upload path (procesar_rips, procesar_legalizaciones) reports no
\* error and every row of the table passes through to the result.
C11_Original ==
    (Called({"procesar_rips", "procesar_legalizaciones"}) /\ LacksEstadoOnly)
        => /\ ~res.raised
           /\ res.error = NoError
           /\ ReturnedRows = Len(tgt.rows)

\* the valid states of the dataset the call processes
ValidosOf ==
    IF fn \in LegalizacionCalls THEN ESTADOS_VALIDOS_LEGALIZACIONES
    ELSE IF fn \in RipsCalls THEN ESTADOS_VALIDOS_RIPS
    ELSE ESTADOS_VALIDOS_FACTURACION_ELECTRONICA

\* the tables the call returned
ReturnedTables ==
    IF fn \in LegalizacionCalls THEN {res.df_ppl, res.df_convenios}
    ELSE IF fn \in RipsCalls THEN {res.df_rips}
    ELSE IF fn = "procesar_facturacion" THEN {res.df_facturacion}
    ELSE {res.df_facturacion_electronica}

\* the table has rows, a state column and the columns the upload path asks
\* for, and no row of it is in a valid state
EveryRowInvalid ==
    /\ ~IsEmpty(tgt)
    /\ "ESTADO" \in tgt.cols
    /\ fn \in LegalizacionCalls => "CONVENIO" \in tgt.cols
    /\ fn \in {"procesar_legalizaciones", "procesar_rips"} =>
          /\ find_column_variant(tgt, COLUMN_NAMES_usuario) # NoColumn
          /\ find_column_variant(tgt, COLUMN_NAMES_fecha) # NoColumn
    /\ \A i \in 1..Len(tgt.rows) :
          NormText(tgt.rows[i]["ESTADO"], tgt.dtype["ESTADO"]) \notin ValidosOf

StateFilterCalls ==
    {"procesar_legalizaciones", "process_legalizaciones", "procesar_rips",
     "process_rips", "process_facturacion_electronica"}

\* C12: when every row of the table has a state outside the valid set, the
\* call (process_rips, process_facturacion_electronica, process_legalizaciones,
\* procesar_rips, procesar_legalizaciones) returns tables with zero rows, not
\* None, its error field is None and it does not raise.
C12_EmptyResult ==
    (Called(StateFilterCalls) /\ EveryRowInvalid)
        => /\ ~res.raised
           /\ res.error = NoError
           /\ \A df \in ReturnedTables : ~df.isNone /\ df.rows = <<>>

C12_Witness ==
    /\ Called({"procesar_rips"})
    /\ EveryRowInvalid
    /\ Len(tgt.rows) >= 2
    /\ ~ref.isNone
    /\ res.error = NoError
    /\ ~res.df_rips.isNone
    /\ \E i \in 1..Len(tgt.rows) : ~IsNull(tgt.rows[i]["ESTADO"])

\* the rows of the legalization table that survive the state filter: every
\* row when the table has no state column
Survivors ==
    {i \in 1..Len(tgt.rows) :
        "ESTADO" \in tgt.cols =>
            NormText(tgt.rows[i]["ESTADO"], tgt.dtype["ESTADO"])
                \in ESTADOS_VALIDOS_LEGALIZACIONES}

\* the identifiers of the rows of a returned table
IdsOf(df) == {df.rows[i]["ID_LEGALIZACION"] : i \in 1..Len(df.rows)}

\* C13: for every legalization table that has the CONVENIO column,
\* process_legalizaciones returns two tables such that every row that survived
\* the state filter is in exactly one of them: the rows whose CONVENIO equals
\* CONVENIO_PPL in df_ppl, every other row, a null CONVENIO included, in
\* df_convenios; the two row counts add up to the number of surviving rows.
C13_Partition ==
    (Called({"process_legalizaciones"}) /\ ~IsEmpty(tgt) /\ "CONVENIO" \in tgt.cols)
        => /\ ~res.df_ppl.isNone /\ ~res.df_convenios.isNone
           /\ IdsOf(res.df_ppl) =
                 {RowId(i) : i \in {j \in Survivors :
                                       tgt.rows[j]["CONVENIO"] = Str(CONVENIO_PPL)}}
           /\ IdsOf(res.df_convenios) =
                 {RowId(i) : i \in {j \in Survivors :
                                       tgt.rows[j]["CONVENIO"] # Str(CONVENIO_PPL)}}
           /\ IdsOf(res.df_ppl) \cap IdsOf(res.df_convenios) = {}
           /\ Len(res.df_ppl.rows) + Len(res.df_convenios.rows) = Cardinality(Survivors)

C13_Witness ==
    /\ Called({"process_legalizaciones"})
    /\ "CONVENIO" \in tgt.cols
    /\ Len(res.df_ppl.rows) = 1
    /\ Len(res.df_convenios.rows) = 1
    /\ IsNull(res.df_convenios.rows[1]["CONVENIO"])

(***************************************************************************)
(* Properties of the upload handlers                                        *)
(***************************************************************************)
\* the message has the column name among its parts
Names(message, col) == \E n \in 1..Len(message) : message[n] = col

\* the step is a run of the legalizations handler on a file whose table has
\* no CONVENIO column
LacksConvenio ==
    /\ fn' = "render_legalizaciones_upload"
    /\ pc' \in Rejections
    /\ ~tgt'.isNone
    /\ "CONVENIO" \notin tgt'.cols

MarkerRows ==
    {i \in 0..(Len(tgt.rows) - 1) :
        \E c \in tgt.cols : StartsWith(RowStr(tgt, i + 1, c), Upper(colArg))}

\* C15: detect_header_row returns the index of the first row, in row order,
\* that has a cell whose text after trim and uppercase starts with the
\* uppercased marker, the smallest index when several rows have one, and
\* None exactly when no row has such a cell.
C15_HeaderLocator ==
    (fn = "detect_header_row" /\ pc = "done")
        => /\ res = NoRow <=> MarkerRows = {}
           /\ res # NoRow => res \in MarkerRows /\ \A i \in MarkerRows : res <= i

C15_Witness ==
    /\ fn = "detect_header_row" /\ pc = "done"
    /\ res = 1
    /\ Cardinality(MarkerRows) >= 2
    /\ IsNull(tgt.rows[1]["0"])


(***************************************************************************)
(* Properties of a rejected upload                                          *)
(***************************************************************************)
UploadHandlers ==
    {"render_legalizaciones_upload", "render_rips_upload",
     "render_facturacion_upload", "render_facturacion_electronica_upload"}

\* the step is the run of an upload handler that rejects the file: the
\* marker is not found, the validation fails, or no row is left
RejectedUpload ==
    /\ pc = "ready"
    /\ fn' \in UploadHandlers
    /\ pc' \in {"no_marker", "invalid", "empty"}

\* C16: when an upload handler rejects a file because the header marker is
\* not found, the structural validation fails, or zero rows remain after
\* processing, every session table and every persisted file is unchanged,
\* those of the dataset being uploaded included.
C16_RejectedUpload == [][RejectedUpload => UNCHANGED sessVars]_vars

C16_Witness ==
    /\ fn = "render_legalizaciones_upload" /\ pc = "empty"
    /\ ~IsEmpty(session_state.df_ppl) /\ ~FILES.PPL.isNone
    /\ ~IsEmpty(session_state.df_rips) /\ ~FILES.RIPS.isNone


(***************************************************************************)
(* Properties of a failed validation                                        *)
(***************************************************************************)
\* the table handed to the call does not have the structure its dataset
\* asks for: it is None or empty, or lacks a required column
FailsValidation ==
    IF fn = "procesar_legalizaciones"
    THEN \/ IsEmpty(tgt)
         \/ find_column_variant(tgt, COLUMN_NAMES_usuario) = NoColumn
         \/ find_column_variant(tgt, COLUMN_NAMES_fecha) = NoColumn
         \/ {"ESTADO", "CONVENIO"} \ tgt.cols # {}
    ELSE IF fn = "procesar_rips"
    THEN \/ IsEmpty(tgt)
         \/ find_column_variant(tgt, COLUMN_NAMES_usuario) = NoColumn
         \/ find_column_variant(tgt, COLUMN_NAMES_fecha) = NoColumn
         \/ "ESTADO" \notin tgt.cols
    ELSE \/ tgt.isNone
         \/ "NRO_LEGALIACION" \notin tgt.cols /\ "NRO_LEGALIZACION" \notin tgt.cols

\* C17 as stated: for any input table, None and empty included, that fails
\* the structural validation, procesar_legalizaciones, procesar_rips and
\* procesar_facturacion do not raise: they return a result whose error field
\* is a non-empty message and whose table fields are None.
C17_Original ==
    (Called({"procesar_legalizaciones", "procesar_rips", "procesar_facturacion"})
       /\ FailsValidation)
        => /\ ~res.raised
           /\ res.error # NoError
           /\ \A df \in ReturnedTables : df.isNone


(***************************************************************************)
(* Properties of a new session over the persisted files                     *)
(***************************************************************************)
\* the session table of each uploaded dataset and the file it is saved to
DatasetFiles ==
    [df_ppl |-> "PPL", df_convenios |-> "Convenios", df_rips |-> "RIPS",
     df_facturacion |-> "Facturacion",
     df_facturacion_electronica |-> "FacturacionElectronica"]

\* an upload of an earlier session was saved
SavedBefore == \E d \in DOMAIN DatasetFiles : ~FILES[DatasetFiles[d]].isNone

\* C18 as stated: after a dataset has been uploaded and saved in one session,
\* init_session_state run in a new session completes, sets the 'initialized'
\* flag, sets the session table of that dataset to the table persisted for
\* it, and sets the session table of every dataset without a file to absent.
C18_Original ==
    (fn = "init_session_state" /\ SavedBefore)
        => /\ pc = "done"
           /\ session_state.initialized
           /\ \A d \in DOMAIN DatasetFiles :
                 session_state[d] = load_from_parquet(FILES[DatasetFiles[d]])


(***************************************************************************)
(* Properties of a repeated legalizations upload                            *)
(***************************************************************************)
\* the rows a later session would load for a file; no file, no rows
PersistedRows(key) == IF FILES[key].isNone THEN <<>> ELSE FILES[key].rows

\* C19 as stated: after a successful legalizations upload the persisted PPL
\* table and the persisted Convenios table each equal, as text, the partition
\* this upload produced, so that no row of an earlier upload remains persisted
\* for either partition.  The partitions in the session are those of the last
\* successful upload: only that handler sets them, and the clear buttons
\* remove them together with their files.
C19_Original ==
    /\ ~session_state.df_ppl.isNone
          => PersistedRows("PPL") = astype_str(session_state.df_ppl).rows
    /\ ~session_state.df_convenios.isNone
          => PersistedRows("Convenios") = astype_str(session_state.df_convenios).rows


(***************************************************************************)
(* Properties of a failed save                                              *)
(***************************************************************************)
\* the save of a table with rows failed at some point of the write, over a
\* file an earlier save had written
FailedSave ==
    /\ fn = "save_to_parquet" /\ pc = "done"
    /\ ~IsEmpty(tgt)
    /\ res.fault # "none"
    /\ ~ref.isNone

\* C20 as stated: if save_to_parquet fails at any point of the write, it
\* returns False and the file persisted before is still there with the
\* content of the last successful save, neither deleted nor truncated, so
\* that the load that follows returns the earlier table.
C20_Original ==
    FailedSave => /\ ~res.ret
                  /\ FILES[colArg] = ref
                  /\ res2 = ref


(***************************************************************************)
(* Properties of a save followed by a load                                  *)
(***************************************************************************)
SaveAndLoad == fn = "save_to_parquet" /\ pc = "done"

\* C21: save_to_parquet does nothing and returns False when the table is None
\* or empty; otherwise a successful save writes the table with every column
\* as text and the load_from_parquet that follows returns exactly that text
\* table, so that every cell that was a string before the save comes back
\* unchanged; load_from_parquet returns None when there is no file.
C21_RoundTrip ==
    SaveAndLoad =>
        /\ IsEmpty(tgt) => ~res.ret /\ FILES[colArg] = ref
        /\ res.ret =>
              /\ ~res2.isNone
              /\ res2.cols = tgt.cols
              /\ Len(res2.rows) = Len(tgt.rows)
              /\ \A i \in 1..Len(tgt.rows) : \A c \in tgt.cols :
                    /\ res2.rows[i][c] = Str(AsTypeStr(tgt.rows[i][c], tgt.dtype[c]))
                    /\ IsStr(tgt.rows[i][c]) => res2.rows[i][c] = tgt.rows[i][c]
        /\ FILES[colArg].isNone => res2.isNone

C21_Witness ==
    /\ SaveAndLoad
    /\ res.ret
    /\ ~ref.isNone
    /\ "DOCUMENTO" \in tgt.cols
    /\ Len(tgt.rows) = 2
    /\ tgt.rows[1]["DOCUMENTO"] = Str(<<"0", "1">>)
    /\ tgt.rows[2]["DOCUMENTO"] = Str(<<" ", "a">>)
    /\ IsNull(tgt.rows[1]["CANTIDAD"])
    /\ res2.rows[1]["DOCUMENTO"] = Str(<<"0", "1">>)


(***************************************************************************)
(* Properties of the normalization                                          *)
(***************************************************************************)
\* C22: normalize_column_names applied twice to a table gives the column
\* names it gives applied once, and the cell-text normalization (trim, then
\* uppercase) applied twice gives the cell values it gives applied once.
C22_Idempotent ==
    (fn = "normalize_column_names" /\ pc = "done")
        => /\ res2.columns = res.columns
           /\ res2.cells = res.cells

C22_Witness ==
    /\ fn = "normalize_column_names" /\ pc = "done"
    /\ tgt.columns = <<Str(<<" ", "a", "\n">>), Str(<<"a", "\n", "b">>)>>
    /\ res.columns = <<Str(<<"A">>), Str(<<"A", " ", "B">>)>>
    /\ tgt.cells = <<Str(<<"b", "\n">>), NULL>>
    /\ res.cells = <<Str(<<"B">>), Str(<<"N", "A", "N">>)>>


(***************************************************************************)
(* Properties of the filters by date and user                               *)
(***************************************************************************)
FilterCalls == {"filtrar_legalizaciones", "filtrar_rips", "filtrar_facturacion"}

\* C23 as stated: filtrar_legalizaciones, filtrar_rips and filtrar_facturacion
\* leave the table passed to them unchanged: after the call it has the same
\* rows, columns and cell values as before, for every table, date range and
\* user selection.
C23_Original ==
    (fn \in FilterCalls /\ pc = "done") => res.tgt = tgt


\* the selection of the call is an active user filter
ActiveSelection == es_filtro_activo(ref.usuarios_seleccionados)

\* the user-column values of the rows of a table
UserValues(df) ==
    LET usuario_col == find_column_variant(df, COLUMN_NAMES_usuario)
    IN  IF usuario_col = NoColumn THEN {}
        ELSE {df.rows[i][usuario_col] : i \in 1..Len(df.rows)}

Selected ==
    {Str(ref.usuarios_seleccionados.values[n]) :
        n \in 1..Len(ref.usuarios_seleccionados.values)}

\* C29 as stated: when a filter is called on a table that has a user column,
\* with a non-empty selection that does not contain 'Todos', every row of the
\* result has a user-column value that is in the selection; a selection that
\* is None, empty or contains 'Todos' applies no user filter.
C29_Original ==
    (fn \in FilterCalls /\ pc = "done")
        => IF ActiveSelection
           THEN find_column_variant(tgt, COLUMN_NAMES_usuario) # NoColumn
                   => UserValues(res.ret) \subseteq Selected
           ELSE res.ret = filter_by_date_range(tgt,
                              find_column_variant(tgt, COLUMN_NAMES_fecha),
                              ref.start_date, ref.end_date).ret


(***************************************************************************)
(* Properties of the aggregator                                             *)
(***************************************************************************)
\* the call groups by agent and day
ByDate ==
    ref.group_by_date /\ ref.date_column # NoColumn /\ ref.date_column \in tgt.cols

\* the call is made on a non-empty table that has the agent column
Aggregated ==
    /\ fn = "aggregate_by_user" /\ pc = "done"
    /\ ~IsEmpty(tgt) /\ colArg \in tgt.cols

\* the grouping key of the i-th input row: the agent, or the agent and the
\* day; a missing part makes it no key
GroupKey(i) ==
    IF ByDate THEN <<tgt.rows[i][colArg], tgt.rows[i][ref.date_column]>>
    ELSE <<tgt.rows[i][colArg]>>
Keyed == {i \in 1..Len(tgt.rows) : \A n \in 1..Len(GroupKey(i)) : ~IsNull(GroupKey(i)[n])}

\* the key of the g-th row of the result
ResultKey(g) ==
    IF ByDate THEN <<res.ret.rows[g][colArg], res.ret.rows[g]["FECHA"]>>
    ELSE <<res.ret.rows[g][colArg]>>

\* the result has one row per key occurring in the input, with the number of
\* input rows of that key, and the counts add up to the rows that have a key
RECURSIVE SumCounts(_, _)
SumCounts(rows, g) ==
    IF g > Len(rows) THEN 0 ELSE CountOf(rows[g]["CANTIDAD"]) + SumCounts(rows, g + 1)

CountsRight ==
    /\ ~res.raised
    /\ ~res.ret.isNone
    /\ {ResultKey(g) : g \in 1..Len(res.ret.rows)} = {GroupKey(i) : i \in Keyed}
    /\ \A g, h \in 1..Len(res.ret.rows) : ResultKey(g) = ResultKey(h) => g = h
    /\ \A g \in 1..Len(res.ret.rows) :
          CountOf(res.ret.rows[g]["CANTIDAD"])
              = Cardinality({i \in Keyed : GroupKey(i) = ResultKey(g)})
    /\ SumCounts(res.ret.rows, 1) = Cardinality(Keyed)

\* C24 as stated: for every non-empty table that has the agent column,
\* aggregate_by_user returns one row per distinct non-null agent with the
\* number of rows of that agent, or, with group_by_date and an existing date
\* column, one row per (agent, day) pair occurring in the input with its
\* count; the counts sum to the number of rows with a non-null grouping key.
C24_Original == Aggregated => CountsRight

\* C24 amended: the same, for the grouping by date only when the date column
\* is of datetime type; on a date column of another type (text, as in a
\* table loaded from its file) the call with group_by_date raises.
C24_AggregatorCounts ==
    Aggregated =>
        IF ByDate /\ tgt.dtype[ref.date_column] # "datetime64"
        THEN res.raised
        ELSE CountsRight

C24_Witness ==
    /\ Aggregated /\ ByDate /\ ~res.raised
    /\ Len(tgt.rows) = 3
    /\ Cardinality(Keyed) = 2
    /\ Len(res.ret.rows) = 1
    /\ CountOf(res.ret.rows[1]["CANTIDAD"]) = 2


(***************************************************************************)
(* Order of the per-agent aggregates                                        *)
(***************************************************************************)
\* a per-agent aggregate was produced for display
Displayed ==
    /\ pc = "done"
    /\ \/ fn \in ProductivityCalls /\ ~res.raised /\ ~res.por_usuario.isNone
       \/ fn = "obtener_facturacion_con_usuario" /\ ~res.raised /\ ~res.df_por_usuario.isNone
DisplayRows ==
    IF fn \in ProductivityCalls THEN res.por_usuario.rows ELSE res.df_por_usuario.rows

DescendingCount(rows) ==
    \A g, h \in 1..Len(rows) :
        g < h => CountOf(rows[g]["CANTIDAD"]) >= CountOf(rows[h]["CANTIDAD"])

\* C25: the per-agent aggregate rows produced for display (por_usuario of the
\* calcular_productividad_* functions, df_por_usuario of
\* obtener_facturacion_con_usuario) are ordered by descending count.
C25_Original == Displayed => DescendingCount(DisplayRows)


(***************************************************************************)
(* The pass applied twice                                                   *)
(***************************************************************************)
\* C26: for every RIPS table t and roster R,
\* cruzar_documento_a_nombre(cruzar_documento_a_nombre(t, R), R) equals
\* cruzar_documento_a_nombre(t, R): applying the pass to an already resolved
\* table changes no agent value.
C26_Original ==
    (fn = "cruzar_documento_a_nombre" /\ pc = "done") => res2 = res.ret


(***************************************************************************)
(* Frame of the legalization upload                                         *)
(***************************************************************************)
\* the tables and files of the other datasets
OtherTables ==
    <<session_state.df_rips, session_state.df_facturacion,
      session_state.df_facturacion_electronica, session_state.df_facturadores,
      FILES.RIPS, FILES.Facturacion, FILES.FacturacionElectronica, FILES.Facturadores>>

\* the step is a run of the legalization block that stores its tables
BlockStored == fn' = "Procesar y Guardar Legalizaciones" /\ pc' = "stored"

\* C27: processing a legalizations file changes only the PPL and Convenios
\* session tables and files; the RIPS, billing, e-billing and roster session
\* tables and their persisted files are the same after the upload as before
\* it (here: in the legalization block of the single-file program).
C27_Original == [][BlockStored => UNCHANGED OtherTables]_vars

\* the same for the handler render_legalizaciones_upload of ui/file_upload.py
StoredByHandler ==
    \E df \in LegalizacionesUploads :
        LET result == procesar_legalizaciones(df, session_state.df_facturadores)
        IN  /\ LegalizacionesOutcome(df, result) \notin Rejections
            /\ LegalizacionesStep(df, result)
HandlerFrame == [][StoredByHandler => UNCHANGED OtherTables]_vars


(***************************************************************************)
(* Row count of the join with the roster                                    *)
(***************************************************************************)
\* C28: merge_with_facturadores returns a table with exactly one row per row
\* of the main table, for every roster; the table procesar_rips returns for
\* storing has as many rows as uploaded rows passed the state filter.
C28_Original ==
    /\ (fn = "merge_with_facturadores" /\ pc = "done")
          => (~res.raised /\ Count(res.df) = Count(tgt))
    /\ (fn = "procesar_rips" /\ pc = "done" /\ ~res.raised /\ res.error = NoError)
          => Count(res.df_rips) = Count(process_rips(tgt))


(***************************************************************************)
(* The failed reload of the roster                                          *)
(***************************************************************************)
\* the step is a reload for which load_facturadores_master returned None
ReloadFailed == fn' = "render_facturadores_reload" /\ pc' = "failed"

\* C30: when the 'Recargar Facturadores' action finds that
\* load_facturadores_master returns None, the roster held in session state
\* and the persisted roster file (with every other table and file) are left
\* exactly as they were; the loader returns None only when neither source
\* gave a table, and it consults the local file only when the secrets source
\* yielded no table.
C30_FailedReload ==
    [][/\ ReloadFailed => UNCHANGED sessVars
       /\ fn' = "render_facturadores_reload" =>
             /\ res'.file_read => res'.secrets.status # "ok"
             /\ (pc' = "failed") <=> (res'.secrets.status # "ok" /\ res'.file.status # "ok")]_vars

C30_Witness ==
    /\ fn = "render_facturadores_reload" /\ pc = "failed"
    /\ res.file_read /\ res.secrets.status = "absent" /\ res.file.status = "raises"
    /\ ~IsEmpty(session_state.df_facturadores)
    /\ ~FILES.Facturadores.isNone

=============================================================================
